---- MODULE Spec2Model ----
(***************************************************************************)
(* A model of arraycontext/impl/pytato/__init__.py: the freeze path of     *)
(* PytatoPyOpenCLArrayContext with its two caches (_freeze_prg_cache and   *)
(* _dag_transform_cache), the freeze path of PytatoJAXArrayContext, and    *)
(* the per-leaf dispatch _rec_map_container with the operations built on   *)
(* it (thaw, tag, tag_axis, zeros_like, to_numpy).                         *)
(*                                                                         *)
(* A context is constructed in Init as one of the two classes.  A call of  *)
(* PytatoPyOpenCLArrayContext.freeze is a sequence of steps of a calling   *)
(* thread; the steps are cut where the code reads or writes one of the     *)
(* caches or calls a collaborator (transform_dag, pt.generate_loopy,       *)
(* transform_loopy_program, the compiled program).  The collaborators are  *)
(* pluggable: each call of one succeeds or raises, chosen by the step.     *)
(***************************************************************************)
EXTENDS Integers, Sequences, FiniteSets, TLC

\* Number of calls made on the context in one behaviour.
MaxCalls == 2

\* Threads calling into the context.
Threads == {1, 2}

\* The thread that makes the calls when the caller serializes them.
SerialCallers == {1}

\* Leaf paths of a container, in traversal order.
KeyOrder == <<"a", "b">>
Keys == {KeyOrder[i] : i \in 1..Len(KeyOrder)}

\* Buffer contents.
Data == {1, 2}

\* ---------------------------------------------------------------- leaves
\* Leaf types, by the isinstance tests of the code:
\*   "tga"    arraycontext TaggableCLArray (a subclass of pyopencl Array)
\*   "cla"    pyopencl.array.Array that is not a TaggableCLArray
\*   "dev"    jax DeviceArray
\*   "dw"     pytato DataWrapper (a subclass of pytato Array)
\*   "pt"     pytato Array that is not a DataWrapper: a computed expression
\*   "np"     numpy.ndarray
\*   "scalar" a plain number
\*   "other"  anything else
mkAxes(ty, tags) == [ty |-> ty, tags |-> tags]

mkLeaf(kind, data, axes, tags, op) ==
    [kind |-> kind, data |-> data, axes |-> axes, tags |-> tags, op |-> op]

\* Tags of type pytato.tags.PrefixNamed, each named by its prefix.
PrefixNamedTags == {"uv"}

TaggableCLArrays ==
    {mkLeaf("tga", 1, mkAxes("cl", {}), {}, ""),
     mkLeaf("tga", 2, mkAxes("cl", {"x"}), {"t"}, "")}

CLArrays == {mkLeaf("cla", 1, mkAxes("cl", {}), {}, "")}

DataWrappers == {mkLeaf("dw", 2, mkAxes("pt", {"x"}), {"t"}, "")}

\* A computed expression: op applied to one embedded DataWrapper holding
\* data.  The first two differ in the embedded data only.
PlainPtArrays == {mkLeaf("pt", d, mkAxes("pt", {}), {}, "add1") : d \in Data}

PtArrays ==
    PlainPtArrays \cup {mkLeaf("pt", 1, mkAxes("pt", {"x"}), {"t", "uv"}, "add1")}

\* A plain number of the given type: "int" and "float" are Python numbers,
\* the other types are numpy scalar types.
mkScalar(dtype, data) ==
    [kind |-> "scalar", data |-> data, axes |-> mkAxes("none", {}),
     tags |-> {}, op |-> "", dtype |-> dtype]

Scalars == {mkScalar("int", 2)}

NumpyScalars == {mkScalar("float32", 2)}

NumpyArrays == {mkLeaf("np", 1, mkAxes("none", {}), {}, "")}

Others == {mkLeaf("other", 1, mkAxes("none", {}), {}, "")}

DeviceArrays == {mkLeaf("dev", 1, mkAxes("none", {}), {}, "")}

CLLeaves ==
    TaggableCLArrays \cup CLArrays \cup DataWrappers \cup PtArrays
        \cup Scalars \cup Others

JAXLeaves ==
    DeviceArrays \cup DataWrappers \cup PlainPtArrays \cup Scalars \cup Others

\* A call's argument: a top-level plain scalar, or a container given as the
\* map from leaf path to leaf.
mkArg(top, val, leaves) == [top |-> top, val |-> val, leaves |-> leaves]

Container1(a) == mkArg("container", 0, [k \in {"a"} |-> a])

Container2(a, b) ==
    mkArg("container", 0, [k \in Keys |-> IF k = "a" THEN a ELSE b])

ScalarArgs == {mkArg("scalar", 2, <<>>)}

\* The arguments of the modelled calls of freeze.
FreezeArgs ==
    ScalarArgs
        \cup {Container1(a) : a \in CLLeaves}
        \cup {Container2(a, b) :
                a \in PlainPtArrays,
                b \in CLLeaves \ {mkLeaf("pt", 1, mkAxes("pt", {"x"}),
                                         {"t", "uv"}, "add1")}}
        \cup {Container2(a, a) : a \in CLArrays}
        \cup {Container2(a, b) : a \in Others, b \in TaggableCLArrays}

\* The arguments of the modelled calls of to_numpy.
ToNumpyArgs ==
    ScalarArgs
        \cup {Container1(a) :
                a \in CLArrays \cup DataWrappers \cup Scalars \cup Others}
        \cup {Container2(a, b) : a \in PlainPtArrays, b \in CLArrays}

\* The arguments of the modelled calls of thaw, tag, tag_axis, zeros_like.
MapArgs ==
    ScalarArgs
        \cup {Container1(a) : a \in CLLeaves}
        \cup {Container2(a, a) : a \in CLArrays}
        \cup {Container2(a, b) : a \in TaggableCLArrays, b \in Others}

\* The arguments of the modelled calls of the JAX freeze.
JaxFreezeArgs ==
    ScalarArgs
        \cup {Container1(a) : a \in JAXLeaves}
        \cup {Container2(a, b) : a \in PlainPtArrays, b \in DeviceArrays}

\* The map m with key k set to v.
Put(m, k, v) == [x \in DOMAIN m \cup {k} |-> IF x = k THEN v ELSE m[x]]

\* The map m restricted to the keys in S.
Restrict(m, S) == [x \in S |-> m[x]]

\* ------------------------------------------------------------- type tests
\* isinstance(ary, ty): the leaf types that are instances of class ty.
InstancesOf(ty) ==
    CASE ty = "TaggableCLArray" -> {"tga"}
      [] ty = "cla.Array" -> {"tga", "cla"}
      [] ty = "pt.DataWrapper" -> {"dw"}
      [] ty = "pt.Array" -> {"dw", "pt"}
      [] ty = "np.ndarray" -> {"np"}
      [] ty = "DeviceArray" -> {"dev"}

IsInstance(ary, types) == \E ty \in types : ary.kind \in InstancesOf(ty)

\* np.isscalar(ary)
IsScalar(ary) == ary.kind = "scalar"

\* PytatoPyOpenCLArrayContext.array_types and ._frozen_array_types
CLArrayTypes == {"pt.Array", "cla.Array"}
CLFrozenArrayTypes == {"cla.Array"}

\* PytatoJAXArrayContext.array_types
JAXArrayTypes == {"pt.Array", "DeviceArray"}

\* ------------------------------------------------------------- exceptions
NoExc == [exc |-> "", where |-> "", got |-> "", expected |-> {}]

\* The TypeError of an unsupported leaf: the operation, the received type
\* and the accepted types are in its message.
UnsupportedLeaf(where, ary, expected) ==
    [exc |-> "TypeError", where |-> where, got |-> ary.kind,
     expected |-> expected]

Raised(exc, where) == [exc |-> exc, where |-> where, got |-> "", expected |-> {}]

\* ---------------------------------------------------- representation changes
\* get_cl_axes_from_pt_axes, get_pt_axes_from_cl_axes: the same axis tags on
\* the other library's axis type.
get_cl_axes_from_pt_axes(axes) == mkAxes("cl", axes.tags)
get_pt_axes_from_cl_axes(axes) == mkAxes("pt", axes.tags)

\* to_tagged_cl_array(ary, axes=..., tags=...): the buffer of ary as a
\* TaggableCLArray with the given axes and tags.
to_tagged_cl_array(ary, axes, tags) == mkLeaf("tga", ary.data, axes, tags, "")

\* to_tagged_cl_array(ary) of a pyopencl array that carries no metadata.
to_tagged_cl_array_default(ary) ==
    to_tagged_cl_array(ary, mkAxes("cl", {}), {})

\* -------------------------------------------------- freeze: classification
\* The loop of freeze over array_as_dict: each leaf goes to
\* key_to_frozen_subary or to key_to_pt_arrays, a pyopencl array that is not
\* a TaggableCLArray is reported as deprecated, and the first leaf of no
\* accepted type ends the loop with a TypeError.
NoClass == [frozen |-> <<>>, pts |-> <<>>, warned |-> <<>>, exc |-> NoExc]

\* A faulty variant: a leaf of no accepted type is skipped.
FreezeLeafElseSkipped(acc, key, subary) == acc

\* The else branch: any other leaf, a plain scalar included.
FreezeLeafElse(acc, key, subary) ==
    [acc EXCEPT !.exc = UnsupportedLeaf("freeze", subary, CLArrayTypes)]

\* A faulty variant: a data wrapper is recorded in neither map.
FreezeDataWrapperDropped(acc, key, subary) == acc

\* A faulty variant: a data wrapper is recorded as an expression, for transform_dag.
FreezeDataWrapperAsExpression(acc, key, subary) ==
    [acc EXCEPT !.pts = Put(@, key, subary)]

\* A faulty variant: the trivial freeze keeps the data only.
FreezeDataWrapperBare(acc, key, subary) ==
    [acc EXCEPT !.frozen = Put(@, key, to_tagged_cl_array_default(subary))]

\* The data wrapper branch ("trivial freeze"): its data, axes and tags.
FreezeDataWrapper(acc, key, subary) ==
    [acc EXCEPT !.frozen = Put(@, key,
                    to_tagged_cl_array(subary,
                        get_cl_axes_from_pt_axes(subary.axes), subary.tags))]

FreezeLeaf(acc, key, subary) ==
    IF IsInstance(subary, {"TaggableCLArray"})
      THEN [acc EXCEPT !.frozen = Put(@, key, subary)]
    ELSE IF IsInstance(subary, CLFrozenArrayTypes)
      THEN [acc EXCEPT !.warned = Append(@, key),
                       !.frozen = Put(@, key, to_tagged_cl_array_default(subary))]
    ELSE IF IsInstance(subary, {"pt.DataWrapper"})
      THEN FreezeDataWrapper(acc, key, subary)
    ELSE IF IsInstance(subary, {"pt.Array"})
      THEN [acc EXCEPT !.pts = Put(@, key, subary)]
    ELSE FreezeLeafElse(acc, key, subary)

RECURSIVE FreezeClassifyFrom(_, _, _)
FreezeClassifyFrom(i, array_as_dict, acc) ==
    IF i > Len(KeyOrder) \/ acc.exc # NoExc THEN acc
    ELSE IF KeyOrder[i] \notin DOMAIN array_as_dict
      THEN FreezeClassifyFrom(i + 1, array_as_dict, acc)
    ELSE FreezeClassifyFrom(i + 1, array_as_dict,
            FreezeLeaf(acc, KeyOrder[i], array_as_dict[KeyOrder[i]]))

FreezeClassify(array_as_dict) == FreezeClassifyFrom(1, array_as_dict, NoClass)

\* ------------------------------------------------------- canonicalization
KeyIndex(k) == CHOOSE i \in 1..Len(KeyOrder) : KeyOrder[i] = k

\* The position of key k among the keys S, in traversal order.
Rank(k, S) == Cardinality({j \in S : KeyIndex(j) < KeyIndex(k)}) + 1

mkNode(op, node, data, name, axes, tags) ==
    [op |-> op, arg |-> [node |-> node, data |-> data, name |-> name],
     axes |-> axes, tags |-> tags]

\* pt.make_dict_of_named_arrays(key_to_pt_arrays): the expressions by name,
\* each with its literal embedded.
make_dict_of_named_arrays(pts) ==
    [k \in DOMAIN pts |->
        mkNode(pts[k].op, "dw", pts[k].data, 0, pts[k].axes, pts[k].tags)]

\* _normalize_pt_expr: every data wrapper becomes a placeholder named in
\* traversal order, its axes and tags kept, and its data goes to the bound
\* arguments under that name.
normalize_expr(dict) ==
    [k \in DOMAIN dict |->
        IF dict[k].arg.node = "dw"
          THEN mkNode(dict[k].op, "ph", 0, Rank(k, DOMAIN dict),
                      dict[k].axes, dict[k].tags)
          ELSE dict[k]]

normalize_bound_arguments(dict) ==
    [n \in {Rank(k, DOMAIN dict) : k \in DOMAIN dict} |->
        LET k == CHOOSE j \in DOMAIN dict : Rank(j, DOMAIN dict) = n
        IN  dict[k].arg.data]

\* ------------------------------------------------------------ collaborators
\* pytools.common_prefix of a collection of prefixes; the empty prefix when
\* there is none.
IsPrefixOf(p, s) == Len(p) <= Len(s) /\ SubSeq(s, 1, Len(p)) = p

CommonPrefix(S) ==
    IF S = {} THEN <<>>
    ELSE LET s == CHOOSE x \in S : TRUE
             n == CHOOSE i \in 0..Len(s) :
                    /\ \A y \in S : IsPrefixOf(SubSeq(s, 1, i), y)
                    /\ \A j \in (i + 1)..Len(s) :
                          \E y \in S : ~IsPrefixOf(SubSeq(s, 1, j), y)
         IN  SubSeq(s, 1, n)

\* PrefixNamed.prefix, as a sequence of characters.
PrefixOf(tag) == CASE tag = "uv" -> <<"u", "v">>

\* The name of the generated entry point: "frozen_" and the common prefix
\* of the PrefixNamed tags of the symbolic leaves, or "frozen_result".
FunctionName(pts) ==
    LET name_hint_tags ==
            UNION {pts[k].tags \cap PrefixNamedTags : k \in DOMAIN pts}
        name_hint == CommonPrefix({PrefixOf(nh) : nh \in name_hint_tags})
    IN  IF name_hint # <<>> THEN <<"frozen">> \o name_hint
        ELSE <<"frozen", "result">>

\* What a call of transform_dag does: "ok" rewrites the expression and
\* annotates its outputs; "literal" is a rewrite that also embeds a literal
\* into the expression; "raise" raises.
TransformOutcomes == {"ok", "literal", "raise"}

Annotated(node) ==
    [node EXCEPT !.tags = @ \cup {"T"},
                 !.axes = mkAxes(@.ty, @.tags \cup {"A"})]

TransformedDag(dag, how) ==
    CASE how = "ok" -> [k \in DOMAIN dag |-> Annotated(dag[k])]
      [] how = "literal" ->
            [k \in DOMAIN dag |->
                IF Rank(k, DOMAIN dag) = 1
                  THEN [Annotated(dag[k]) EXCEPT
                          !.arg = [node |-> "dw", data |-> 1, name |-> 0]]
                  ELSE Annotated(dag[k])]
      [] OTHER -> dag

\* The bound program pt.generate_loopy returns for an expression: the data
\* of the literals embedded in the expression are its own bound arguments.
NoPrg == [dag |-> <<>>, name |-> <<>>, bound_arguments |-> <<>>]

generate_loopy(dag, function_name) ==
    [dag |-> dag, name |-> function_name,
     bound_arguments |->
        [k \in {j \in DOMAIN dag : dag[j].arg.node = "dw"} |-> dag[k].arg.data]]

\* The value an operator computes.
Apply(op, d) ==
    CASE op = "add1" -> d + 1
      [] op = "zeros" -> 0
      [] OTHER -> d

\* pt_prg(queue, **kwargs): one pyopencl array per named output, computed
\* from the literals of the program's expression and from kwargs.
RunProgram(prg, kwargs) ==
    [k \in DOMAIN prg.dag |->
        LET arg == prg.dag[k].arg
            d   == IF arg.node = "dw" THEN arg.data ELSE kwargs[arg.name]
        IN  mkLeaf("cla", Apply(prg.dag[k].op, d), mkAxes("cl", {}), {}, "")]

\* ------------------------------------------- _rec_map_container (PyOpenCL)
\* The tags and the axis tags that the modelled calls of tag and tag_axis
\* attach.
TagArg == {"t"}
AxisTagArg == {"x"}

\* The per-leaf functions handed to _rec_map_container.
ApplyFunc(func, ary) ==
    CASE func = "zeros_like" -> mkLeaf("pt", 0, mkAxes("pt", {}), {}, "zeros")
      [] func = "thaw" ->
            mkLeaf("dw", ary.data, get_pt_axes_from_cl_axes(ary.axes),
                   ary.tags, "")
      [] func = "tag" -> [ary EXCEPT !.tags = @ \cup TagArg]
      [] func = "tag_axis" ->
            [ary EXCEPT !.axes = mkAxes(@.ty, @.tags \cup AxisTagArg)]
      [] func = "to_numpy" ->
            mkLeaf("np", ary.data, mkAxes("none", {}), {}, "")
      [] func = "from_numpy" ->
            mkLeaf("dw", ary.data, mkAxes("pt", {}), {}, "")

\* A faulty variant: every caller leaves allowed_types at its default.
AllowedTypesDefault(func) == {"pt.Array", "TaggableCLArray"}

\* allowed_types of each caller; None stands for the default
\* (pt.Array, TaggableCLArray).
AllowedTypes(func) ==
    CASE func = "thaw" -> {"TaggableCLArray"}
      [] func = "from_numpy" -> {"np.ndarray"}
      [] OTHER -> {"pt.Array", "TaggableCLArray"}

\* default_scalar of each caller: the empty set stands for None.
DefaultScalar(func) == IF func = "zeros_like" THEN {0} ELSE {}

\* A faulty variant: no caller asks for strict.
StrictNever(func) == FALSE

\* strict of each caller.
Strict(func) == func = "from_numpy"

\* np.array(ary).dtype of a scalar.
DTypeOf(ary) ==
    CASE ary.dtype = "int" -> "int64"
      [] ary.dtype = "float" -> "float64"
      [] OTHER -> ary.dtype

\* A faulty variant: the default is returned as the Python number it is.
ScalarDefaultUnconverted(func, ary) ==
    IF DefaultScalar(func) = {} THEN ary
    ELSE mkScalar("int", CHOOSE d \in DefaultScalar(func) : TRUE)

\* The plain-scalar path of _wrapper: ary, or
\* np.array(ary).dtype.type(default_scalar).
ScalarDefault(func, ary) ==
    IF DefaultScalar(func) = {} THEN ary
    ELSE mkScalar(DTypeOf(ary), CHOOSE d \in DefaultScalar(func) : TRUE)

NoLeaf == mkLeaf("none", 0, mkAxes("none", {}), {}, "")

\* A faulty variant: a pyopencl array goes to func as it is.
WrapperUncoerced(func, ary) ==
    IF IsInstance(ary, AllowedTypes(func) \cup CLFrozenArrayTypes)
      THEN [out |-> ApplyFunc(func, ary),
            warned |-> ~IsInstance(ary, AllowedTypes(func)), exc |-> NoExc]
    ELSE IF IsScalar(ary)
      THEN [out |-> ScalarDefault(func, ary),
            warned |-> FALSE, exc |-> NoExc]
    ELSE [out |-> NoLeaf, warned |-> FALSE,
          exc |-> UnsupportedLeaf(func, ary, AllowedTypes(func))]

\* _wrapper(ary): the leaf it returns, whether it warned, what it raised.
Wrapper(func, ary) ==
    IF IsInstance(ary, AllowedTypes(func))
      THEN [out |-> ApplyFunc(func, ary), warned |-> FALSE, exc |-> NoExc]
    ELSE IF ~Strict(func) /\ IsInstance(ary, CLFrozenArrayTypes)
      THEN [out |-> ApplyFunc(func, to_tagged_cl_array_default(ary)),
            warned |-> TRUE, exc |-> NoExc]
    ELSE IF IsScalar(ary)
      THEN [out |-> ScalarDefault(func, ary),
            warned |-> FALSE, exc |-> NoExc]
    ELSE [out |-> NoLeaf, warned |-> FALSE,
          exc |-> UnsupportedLeaf(func, ary, AllowedTypes(func))]

\* rec_map_array_container(_wrapper, array) over the leaves in traversal
\* order: the first leaf that raises ends the traversal.
NoMap == [out |-> <<>>, warned |-> <<>>, exc |-> NoExc]

RECURSIVE RecMapFrom(_, _, _, _)
RecMapFrom(i, func, leaves, acc) ==
    IF i > Len(KeyOrder) \/ acc.exc # NoExc THEN acc
    ELSE IF KeyOrder[i] \notin DOMAIN leaves
      THEN RecMapFrom(i + 1, func, leaves, acc)
    ELSE LET k == KeyOrder[i]
             w == Wrapper(func, leaves[k])
         IN  RecMapFrom(i + 1, func, leaves,
                [out |-> IF w.exc = NoExc THEN Put(acc.out, k, w.out)
                         ELSE acc.out,
                 warned |-> IF w.warned THEN Append(acc.warned, k)
                            ELSE acc.warned,
                 exc |-> w.exc])

NoArg == mkArg("none", 0, <<>>)

\* _rec_map_container(func, array): the returned value, the leaves that
\* were reported deprecated, and the exception.  A top-level scalar is a
\* leaf of its own.
RecMapContainer(func, array) ==
    IF array.top = "scalar"
      THEN LET w == Wrapper(func, mkScalar("int", array.val))
           IN  [ret |-> mkArg(IF w.out.dtype = "int" THEN "scalar"
                              ELSE w.out.dtype, w.out.data, <<>>),
                warned |-> <<>>, exc |-> NoExc]
      ELSE LET m == RecMapFrom(1, func, array.leaves, NoMap)
           IN  [ret |-> IF m.exc = NoExc THEN mkArg("container", 0, m.out)
                        ELSE NoArg,
                warned |-> m.warned, exc |-> m.exc]

\* ------------------------------------------------------------------ state
VARIABLES
    backend,              \* the class of the context
    serialized,           \* whether the caller serializes its calls
    freeze_prg_cache,     \* self._freeze_prg_cache
    dag_transform_cache,  \* self._dag_transform_cache
    frame,                \* per thread: the call it is in, with its locals
    invoked,              \* per collaborator and canonical expression: calls
    ncalls                \* calls made on the context

vars == <<backend, serialized, freeze_prg_cache, dag_transform_cache, frame,
          invoked, ncalls>>

\* A thread that is in no call.
Idle ==
    [pc |-> "idle", op |-> "", array |-> NoArg,
     key_to_frozen_subary |-> <<>>, key_to_pt_arrays |-> <<>>,
     normalized_expr |-> <<>>, bound_arguments |-> <<>>,
     pt_prg |-> NoPrg, transformed_dag |-> <<>>, function_name |-> <<>>,
     out_dict |-> <<>>, evt |-> "none", ret |-> NoArg, exc |-> NoExc,
     warned |-> <<>>,
     trace |-> <<>>,      \* the steps the call has taken
     refrozen |-> FALSE,  \* a freeze of its canonical expression returned before
     prg_cache0 |-> <<>>, \* the caches when the call began
     dag_cache0 |-> <<>>]

\* _BasePytatoArrayContext.__init__: both caches start empty.
Init ==
    /\ backend \in {"pyopencl", "jax"}
    /\ serialized = TRUE
    /\ freeze_prg_cache = <<>>
    /\ dag_transform_cache = <<>>
    /\ frame = [t \in Threads |-> Idle]
    /\ invoked = <<>>
    /\ ncalls = 0

InvokedKey(fn, expr) == [fn |-> fn, expr |-> expr]

Count(fn, expr) ==
    IF InvokedKey(fn, expr) \in DOMAIN invoked
      THEN invoked[InvokedKey(fn, expr)] ELSE 0

Bump(inv, fn, expr) ==
    Put(inv, InvokedKey(fn, expr),
        IF InvokedKey(fn, expr) \in DOMAIN inv
          THEN inv[InvokedKey(fn, expr)] + 1 ELSE 1)

\* The call ends by raising exc.
Raise(f, exc) == [f EXCEPT !.pc = "done", !.exc = exc]

Step(f, name) == [f EXCEPT !.trace = Append(@, name)]

\* A serializing caller makes its calls one after the other.
CallAllowed(t) ==
    serialized =>
        /\ t \in SerialCallers
        /\ \A u \in Threads \ {t} : frame[u].pc = "idle"

\* ------------------------------------- PytatoPyOpenCLArrayContext.freeze
\* The expression handed to transform_dag.
TransformInput(f) == f.normalized_expr

\* A faulty variant: the caches are keyed by the expression with its literals.
CacheKeyWithLiterals(f) == make_dict_of_named_arrays(f.key_to_pt_arrays)

\* The key under which freeze looks up and stores in both caches.
CacheKey(f) == f.normalized_expr

\* A faulty variant: a call without a symbolic leaf goes on without a program.
AfterClassificationShortcut(c) ==
    IF DOMAIN c.pts = {} THEN "execute" ELSE "lookup_prg"

\* Where freeze goes on after the classification and the canonicalization:
\* to the program lookup, whatever the leaves.
AfterClassification(c) == "lookup_prg"

\* freeze (and to_numpy, which starts with freeze) up to the first cache
\* access: the top-level scalar test, the classification of the leaves and
\* the canonicalization of the symbolic ones.
FreezeBegin(t, op, array) ==
    /\ backend = "pyopencl"
    /\ frame[t].pc = "idle"
    /\ CallAllowed(t)
    /\ ncalls < MaxCalls
    /\ ncalls' = ncalls + 1
    /\ LET f0 == [Idle EXCEPT !.op = op, !.array = array,
                               !.prg_cache0 = freeze_prg_cache,
                               !.dag_cache0 = dag_transform_cache]
           c  == FreezeClassify(array.leaves)
           pt_dict_of_named_arrays == make_dict_of_named_arrays(c.pts)
       IN  frame' = [frame EXCEPT ![t] =
              IF array.top = "scalar"
                THEN [f0 EXCEPT !.pc = "done",
                        !.ret = IF op = "to_numpy"
                                  THEN RecMapContainer("to_numpy", array).ret
                                  ELSE array]
              ELSE IF c.exc # NoExc
                THEN [Raise(f0, c.exc) EXCEPT !.warned = c.warned]
              ELSE [f0 EXCEPT
                      !.pc = AfterClassification(c),
                      !.refrozen =
                          Count("freeze.return",
                                normalize_expr(pt_dict_of_named_arrays)) > 0,
                      !.warned = c.warned,
                      !.key_to_frozen_subary = c.frozen,
                      !.key_to_pt_arrays = c.pts,
                      !.normalized_expr =
                          normalize_expr(pt_dict_of_named_arrays),
                      !.bound_arguments =
                          normalize_bound_arguments(pt_dict_of_named_arrays)]]
    /\ UNCHANGED <<backend, serialized, freeze_prg_cache, dag_transform_cache, invoked>>

\* pt_prg = self._freeze_prg_cache[normalized_expr], or KeyError.
LookupPrg(t) ==
    /\ frame[t].pc = "lookup_prg"
    /\ LET f == frame[t] IN
       frame' = [frame EXCEPT ![t] =
          IF CacheKey(f) \in DOMAIN freeze_prg_cache
            THEN [Step(f, "prg_hit") EXCEPT
                    !.pc = "hit_dag",
                    !.pt_prg = freeze_prg_cache[CacheKey(f)]]
            ELSE [Step(f, "prg_miss") EXCEPT !.pc = "lookup_dag"]]
    /\ UNCHANGED <<backend, serialized, freeze_prg_cache, dag_transform_cache, invoked,
                   ncalls>>

\* The else branch of the program lookup: the transformed expression and the
\* entry point name are read from the transform cache.
HitDag(t) ==
    /\ frame[t].pc = "hit_dag"
    /\ LET f == frame[t] IN
       frame' = [frame EXCEPT ![t] =
          IF CacheKey(f) \in DOMAIN dag_transform_cache
            THEN [f EXCEPT
                    !.pc = "execute",
                    !.transformed_dag = dag_transform_cache[CacheKey(f)].dag,
                    !.function_name = dag_transform_cache[CacheKey(f)].name]
            ELSE Raise(f, Raised("KeyError", "hit_dag"))]
    /\ UNCHANGED <<backend, serialized, freeze_prg_cache, dag_transform_cache, invoked,
                   ncalls>>

\* transformed_dag, function_name = self._dag_transform_cache[...], or
\* KeyError.
LookupDag(t) ==
    /\ frame[t].pc = "lookup_dag"
    /\ LET f == frame[t] IN
       frame' = [frame EXCEPT ![t] =
          IF CacheKey(f) \in DOMAIN dag_transform_cache
            THEN [Step(f, "dag_hit") EXCEPT
                    !.pc = "generate",
                    !.transformed_dag = dag_transform_cache[CacheKey(f)].dag,
                    !.function_name = dag_transform_cache[CacheKey(f)].name]
            ELSE [Step(f, "dag_miss") EXCEPT !.pc = "transform"]]
    /\ UNCHANGED <<backend, serialized, freeze_prg_cache, dag_transform_cache, invoked,
                   ncalls>>

\* A faulty variant: a failed transform stores the untransformed expression.
TransformStoreAlways(cache, f, how, entry) == Put(cache, CacheKey(f), entry)

\* A faulty variant: nothing is stored in the transform cache.
TransformStoreDropped(cache, f, how, entry) == cache

\* A faulty variant: a store evicts the entries of the other keys.
TransformStoreEvicting(cache, f, how, entry) ==
    IF how = "raise" THEN cache ELSE Put(<<>>, CacheKey(f), entry)

\* The transform cache after the call of transform_dag: the store is reached
\* only when transform_dag returned.
TransformStore(cache, f, how, entry) ==
    IF how = "raise" THEN cache ELSE Put(cache, CacheKey(f), entry)

\* The miss branch of the transform lookup: transform_dag is called, the
\* entry point is named, and the pair is stored.
Transform(t, how) ==
    /\ frame[t].pc = "transform"
    /\ LET f == Step(frame[t], "transform_dag")
           transformed_dag == TransformedDag(TransformInput(f), how)
           function_name == FunctionName(f.key_to_pt_arrays)
       IN  /\ invoked' =
                IF how = "raise"
                  THEN Bump(invoked, "transform_dag", f.normalized_expr)
                  ELSE Bump(Bump(invoked, "transform_dag", f.normalized_expr),
                            "transform_dag.return", f.normalized_expr)
           /\ frame' = [frame EXCEPT ![t] =
                IF how = "raise"
                  THEN Raise(f, Raised("TransformFailure", "transform_dag"))
                  ELSE [Step(f, "store_dag") EXCEPT
                          !.pc = "generate",
                          !.transformed_dag = transformed_dag,
                          !.function_name = function_name]]
           /\ dag_transform_cache' =
                TransformStore(dag_transform_cache, f, how,
                               [dag |-> transformed_dag,
                                name |-> function_name])
    /\ UNCHANGED <<backend, serialized, freeze_prg_cache, ncalls>>

\* What a call of pt.generate_loopy followed by with_transformed_program
\* does.
GenerateOutcomes == {"ok", "generate_raise", "hook_raise"}

\* A faulty variant: the program is generated from the expression with the literals
\* of the call that compiles it inlined.
CompiledProgramInlined(f) ==
    [dag |-> [k \in DOMAIN f.transformed_dag |->
                IF f.transformed_dag[k].arg.node = "ph"
                  THEN [f.transformed_dag[k] EXCEPT
                          !.arg = [node |-> "dw",
                                   data |-> f.bound_arguments[@.name],
                                   name |-> 0]]
                  ELSE f.transformed_dag[k]],
     name |-> f.function_name, bound_arguments |-> <<>>]

\* A faulty variant: the program is generated from the expression as it was before
\* transform_dag.
CompiledProgramUntransformed(f) ==
    generate_loopy(f.normalized_expr, f.function_name)

\* pt.generate_loopy(transformed_dag, ..., function_name=function_name)
CompiledProgram(f) == generate_loopy(f.transformed_dag, f.function_name)

\* A faulty variant: nothing is stored in the program cache.
ProgramStoreDropped(cache, f, how, pt_prg) == cache

\* A faulty variant: a failed code generation stores the program it was to build.
ProgramStoreAlways(cache, f, how, pt_prg) == Put(cache, CacheKey(f), pt_prg)

\* The program cache after code generation and its hook: the store is
\* reached only when both returned.
ProgramStore(cache, f, how, pt_prg) ==
    IF how = "ok" THEN Put(cache, CacheKey(f), pt_prg) ELSE cache

\* The miss branch of the program lookup, after the transformed expression
\* is known: code generation, the transform_loopy_program hook, the store.
Generate(t, how) ==
    /\ frame[t].pc = "generate"
    /\ LET f == Step(frame[t], "generate_loopy")
           pt_prg == CompiledProgram(f)
           inv == Bump(invoked, "generate_loopy", f.normalized_expr)
       IN  /\ freeze_prg_cache' = ProgramStore(freeze_prg_cache, f, how, pt_prg)
           /\ CASE how = "generate_raise" ->
                  /\ invoked' = inv
                  /\ frame' = [frame EXCEPT ![t] =
                        Raise(f, Raised("BackendCompileFailure",
                                        "generate_loopy"))]
             [] how = "hook_raise" ->
                  /\ invoked' = inv
                  /\ frame' = [frame EXCEPT ![t] =
                        Raise(Step(f, "transform_loopy_program"),
                              Raised("ValueError", "transform_loopy_program"))]
             [] OTHER ->
                  /\ invoked' = Bump(inv, "program.return", f.normalized_expr)
                  /\ frame' = [frame EXCEPT ![t] =
                        [Step(Step(f, "transform_loopy_program"), "store_prg")
                            EXCEPT !.pc = "execute", !.pt_prg = pt_prg]]
    /\ UNCHANGED <<backend, serialized, dag_transform_cache, ncalls>>

\* The output names a faulty program returns beside those of its expression.
FaultyOutputs == {"b"}

\* A faulty variant: the check is made only on the program a call has compiled.
PreBoundCheckOnMiss(f) ==
    \/ \E i \in 1..Len(f.trace) : f.trace[i] = "prg_hit"
    \/ DOMAIN f.pt_prg.bound_arguments = {}

\* assert len(pt_prg.bound_arguments) == 0
PreBoundCheck(f) == DOMAIN f.pt_prg.bound_arguments = {}

\* The keyword arguments of the program call.
CallArguments(f) == f.bound_arguments

\* The check on the program and its launch; extra holds the output names a
\* faulty program returns beside those of its expression.
Execute(t, raises, extra) ==
    /\ frame[t].pc = "execute"
    /\ LET f == Step(frame[t], "check")
           out == RunProgram(f.pt_prg, CallArguments(f))
       IN  frame' = [frame EXCEPT ![t] =
              IF ~PreBoundCheck(f)
                THEN Raise(f, Raised("AssertionError", "bound_arguments"))
              ELSE IF raises
                THEN Raise(Step(f, "execute"),
                           Raised("BackendExecutionFailure", "execute"))
              ELSE [Step(f, "execute") EXCEPT
                      !.pc = "wait",
                      !.evt = "pending",
                      !.out_dict =
                          [k \in DOMAIN out \cup extra |->
                              IF k \in DOMAIN out THEN out[k]
                              ELSE mkLeaf("cla", 1, mkAxes("cl", {}), {}, "")]]]
    /\ UNCHANGED <<backend, serialized, freeze_prg_cache, dag_transform_cache, invoked,
                   ncalls>>

\* A faulty variant: the outputs are merged unchecked.
DisjointCheckSkipped(f) == TRUE

\* assert len(set(out_dict) & set(key_to_frozen_subary)) == 0
DisjointCheck(f) == DOMAIN f.out_dict \cap DOMAIN f.key_to_frozen_subary = {}

\* A faulty variant: the axes and tags of the leaf as it was passed in.
OutputMetaOfInput(f, k) == f.key_to_pt_arrays[k]

\* The axes and tags a freshly computed leaf gets.
OutputMeta(f, k) == f.transformed_dag[k]

\* {**key_to_frozen_subary, **{k: to_tagged_cl_array(v, ...)}}
Merged(f) ==
    [k \in DOMAIN f.key_to_frozen_subary \cup DOMAIN f.out_dict |->
        IF k \in DOMAIN f.out_dict
          THEN to_tagged_cl_array(f.out_dict[k],
                   get_cl_axes_from_pt_axes(OutputMeta(f, k).axes),
                   OutputMeta(f, k).tags)
          ELSE f.key_to_frozen_subary[k]]

\* evt.wait(), the disjointness check, the merge and the reassembly of the
\* container by _to_frozen; to_numpy then maps the frozen container.
Wait(t) ==
    /\ frame[t].pc = "wait"
    /\ LET f == [Step(frame[t], "wait") EXCEPT !.evt = "complete"]
           frozen == mkArg("container", 0,
                           Restrict(Merged(f), DOMAIN f.array.leaves))
           mapped == RecMapContainer("to_numpy", frozen)
       IN  IF ~DisjointCheck(f)
             THEN /\ frame' = [frame EXCEPT ![t] =
                        Raise(f, Raised("AssertionError", "disjoint"))]
                  /\ UNCHANGED invoked
           ELSE IF ~(DOMAIN f.out_dict \subseteq DOMAIN f.transformed_dag)
             THEN /\ frame' = [frame EXCEPT ![t] =
                        Raise(f, Raised("KeyError", "merge"))]
                  /\ UNCHANGED invoked
           ELSE IF ~(DOMAIN f.array.leaves \subseteq DOMAIN Merged(f))
             THEN /\ frame' = [frame EXCEPT ![t] =
                        Raise(Step(f, "merge"),
                              Raised("KeyError", "_to_frozen"))]
                  /\ UNCHANGED invoked
           ELSE /\ frame' = [frame EXCEPT ![t] =
                      [Step(f, "merge") EXCEPT
                          !.pc = "done",
                          !.key_to_frozen_subary = Merged(f),
                          !.warned = IF f.op = "to_numpy"
                                       THEN f.warned \o mapped.warned
                                       ELSE f.warned,
                          !.exc = IF f.op = "to_numpy" THEN mapped.exc
                                  ELSE NoExc,
                          !.ret = IF f.op = "to_numpy" THEN mapped.ret
                                  ELSE frozen]]
                /\ invoked' = Bump(invoked, "freeze.return", f.normalized_expr)
    /\ UNCHANGED <<backend, serialized, freeze_prg_cache, dag_transform_cache, ncalls>>

\* The caller takes the result, or the exception, of a finished call.
Return(t) ==
    /\ frame[t].pc = "done"
    /\ frame' = [frame EXCEPT ![t] = Idle]
    /\ UNCHANGED <<backend, serialized, freeze_prg_cache, dag_transform_cache, invoked,
                   ncalls>>

\* ------------------------ thaw, tag, tag_axis, zeros_like (PyOpenCL)
MapOps == {"thaw", "tag", "tag_axis", "zeros_like"}

\* Each is one call of _rec_map_container.
Call(t, func, array) ==
    /\ backend = "pyopencl"
    /\ frame[t].pc = "idle"
    /\ CallAllowed(t)
    /\ ncalls < MaxCalls
    /\ ncalls' = ncalls + 1
    /\ LET r == RecMapContainer(func, array)
       IN  frame' = [frame EXCEPT ![t] =
              [Idle EXCEPT !.pc = "done", !.op = func, !.array = array,
                           !.ret = r.ret, !.exc = r.exc, !.warned = r.warned]]
    /\ UNCHANGED <<backend, serialized, freeze_prg_cache, dag_transform_cache, invoked>>

\* ------------------------------------ PytatoPyOpenCLArrayContext.einsum
\* The operands of the modelled calls of einsum, by position; val tells
\* whether arg_names names them.
mkArgs(named, leaves) == mkArg("args", IF named THEN 1 ELSE 0, leaves)

EinsumArgs ==
    {mkArgs(named, Container1(a).leaves) :
        named \in BOOLEAN,
        a \in TaggableCLArrays \cup CLArrays \cup DataWrappers \cup Others}
        \cup {mkArgs(FALSE, Container2(a, b).leaves) :
                a \in CLArrays, b \in CLArrays \cup PlainPtArrays}

\* The tag NameHint(name).
NameHintTag == "nh"

\* preprocess_arg(name, arg): the operand, how often it was reported
\* deprecated (by einsum and by the thaw it calls), what it raised.
PreprocessArg(named, arg) ==
    LET thawed == Wrapper("thaw", arg)
        coerced == Wrapper("thaw", to_tagged_cl_array_default(arg))
        hinted(ary) == IF named /\ NameHintTag \notin ary.tags
                         THEN [ary EXCEPT !.tags = @ \cup {NameHintTag}]
                         ELSE ary
    IN  IF IsInstance(arg, {"TaggableCLArray"})
          THEN [out |-> hinted(thawed.out),
                warned |-> IF thawed.warned THEN 1 ELSE 0, exc |-> thawed.exc]
        ELSE IF IsInstance(arg, CLFrozenArrayTypes)
          THEN [out |-> hinted(coerced.out),
                warned |-> IF coerced.warned THEN 2 ELSE 1, exc |-> coerced.exc]
        ELSE IF IsInstance(arg, {"pt.Array"})
          THEN [out |-> hinted(arg), warned |-> 0, exc |-> NoExc]
        ELSE [out |-> NoLeaf, warned |-> 0,
              exc |-> UnsupportedLeaf("einsum", arg, CLArrayTypes)]

RECURSIVE EinsumFrom(_, _, _)
EinsumFrom(i, args, acc) ==
    IF i > Len(KeyOrder) \/ acc.exc # NoExc THEN acc
    ELSE IF KeyOrder[i] \notin DOMAIN args.leaves
      THEN EinsumFrom(i + 1, args, acc)
    ELSE LET k == KeyOrder[i]
             w == PreprocessArg(args.val = 1, args.leaves[k])
         IN  EinsumFrom(i + 1, args,
                [out |-> IF w.exc = NoExc THEN Put(acc.out, k, w.out)
                         ELSE acc.out,
                 warned |-> acc.warned \o [j \in 1..w.warned |-> k],
                 exc |-> w.exc])

\* pt.einsum(spec, *operands): the expression over the preprocessed
\* operands.
EinsumResult(args) ==
    LET m == EinsumFrom(1, args, NoMap)
    IN  [ret |-> IF m.exc = NoExc THEN mkArg("einsum", 0, m.out) ELSE NoArg,
         warned |-> m.warned, exc |-> m.exc]

Einsum(t, args) ==
    /\ backend = "pyopencl"
    /\ frame[t].pc = "idle"
    /\ CallAllowed(t)
    /\ ncalls < MaxCalls
    /\ ncalls' = ncalls + 1
    /\ LET r == EinsumResult(args)
       IN  frame' = [frame EXCEPT ![t] =
              [Idle EXCEPT !.pc = "done", !.op = "einsum", !.array = args,
                           !.ret = r.ret, !.exc = r.exc, !.warned = r.warned]]
    /\ UNCHANGED <<backend, serialized, freeze_prg_cache, dag_transform_cache, invoked>>

\* ------------------------------------------ PytatoJAXArrayContext.freeze
\* The classification loop of the JAX freeze.
JaxFreezeLeaf(acc, key, subary) ==
    IF IsInstance(subary, {"DeviceArray"})
      THEN [acc EXCEPT !.frozen = Put(@, key, subary)]
    ELSE IF IsInstance(subary, {"pt.DataWrapper"})
      THEN [acc EXCEPT !.frozen = Put(@, key,
                          mkLeaf("dev", subary.data, mkAxes("none", {}), {}, ""))]
    ELSE IF IsInstance(subary, {"pt.Array"})
      THEN [acc EXCEPT !.pts = Put(@, key, subary)]
    ELSE [acc EXCEPT !.exc = UnsupportedLeaf("freeze", subary, JAXArrayTypes)]

RECURSIVE JaxFreezeClassifyFrom(_, _, _)
JaxFreezeClassifyFrom(i, array_as_dict, acc) ==
    IF i > Len(KeyOrder) \/ acc.exc # NoExc THEN acc
    ELSE IF KeyOrder[i] \notin DOMAIN array_as_dict
      THEN JaxFreezeClassifyFrom(i + 1, array_as_dict, acc)
    ELSE JaxFreezeClassifyFrom(i + 1, array_as_dict,
            JaxFreezeLeaf(acc, KeyOrder[i], array_as_dict[KeyOrder[i]]))

\* What the collaborators of one JAX freeze do.
JaxOutcomes == {"ok", "transform_raise", "generate_raise", "execute_raise"}

\* The JAX freeze holds no cache access: the expression of the symbolic
\* leaves is transformed, compiled and run in every call that reaches it.
FreezeJAX(t, array, how) ==
    /\ backend = "jax"
    /\ frame[t].pc = "idle"
    /\ CallAllowed(t)
    /\ ncalls < MaxCalls
    /\ ncalls' = ncalls + 1
    /\ LET f0 == [Idle EXCEPT !.op = "freeze", !.array = array]
           c  == JaxFreezeClassifyFrom(1, array.leaves, NoClass)
           pt_dict_of_named_arrays == make_dict_of_named_arrays(c.pts)
           canonical == normalize_expr(pt_dict_of_named_arrays)
           f1 == [f0 EXCEPT !.key_to_frozen_subary = c.frozen,
                            !.key_to_pt_arrays = c.pts,
                            !.normalized_expr = canonical,
                            !.refrozen = Count("freeze.return", canonical) > 0]
           transformed_dag == TransformedDag(pt_dict_of_named_arrays, "ok")
           pt_prg == generate_loopy(transformed_dag, <<>>)
           out == RunProgram(pt_prg, <<>>)
           merged == [k \in DOMAIN c.frozen \cup DOMAIN out |->
                        IF k \in DOMAIN out
                          THEN mkLeaf("dev", out[k].data, mkAxes("none", {}),
                                      {}, "")
                          ELSE c.frozen[k]]
           inv1 == Bump(invoked, "transform_dag", canonical)
           inv2 == Bump(inv1, "generate_jax", canonical)
       IN  IF array.top = "scalar"
             THEN /\ frame' = [frame EXCEPT ![t] =
                        [f0 EXCEPT !.pc = "done", !.ret = array]]
                  /\ UNCHANGED invoked
           ELSE IF c.exc # NoExc
             THEN /\ frame' = [frame EXCEPT ![t] = Raise(f0, c.exc)]
                  /\ UNCHANGED invoked
           ELSE IF how = "transform_raise"
             THEN /\ frame' = [frame EXCEPT ![t] =
                        Raise(Step(f1, "transform_dag"),
                              Raised("TransformFailure", "transform_dag"))]
                  /\ invoked' = inv1
           ELSE IF how = "generate_raise"
             THEN /\ frame' = [frame EXCEPT ![t] =
                        Raise(Step(Step(f1, "transform_dag"), "generate_jax"),
                              Raised("BackendCompileFailure", "generate_jax"))]
                  /\ invoked' = inv2
           ELSE IF how = "execute_raise"
             THEN /\ frame' = [frame EXCEPT ![t] =
                        Raise(Step(Step(Step(f1, "transform_dag"),
                                        "generate_jax"), "execute"),
                              Raised("BackendExecutionFailure", "execute"))]
                  /\ invoked' = inv2
           ELSE /\ frame' = [frame EXCEPT ![t] =
                      [Step(Step(Step(Step(f1, "transform_dag"),
                                      "generate_jax"), "execute"), "merge")
                          EXCEPT !.pc = "done",
                                 !.transformed_dag = transformed_dag,
                                 !.pt_prg = pt_prg,
                                 !.out_dict = out,
                                 !.key_to_frozen_subary = merged,
                                 !.ret = mkArg("container", 0,
                                     Restrict(merged, DOMAIN array.leaves))]]
                /\ invoked' = Bump(inv2, "freeze.return", canonical)
    /\ UNCHANGED <<backend, serialized, freeze_prg_cache, dag_transform_cache>>

\* ------------------------------------------------------------ specification
\* The calls on one context, serialized by the caller.
Next ==
    \E t \in Threads :
        \/ \E array \in FreezeArgs : FreezeBegin(t, "freeze", array)
        \/ \E array \in ToNumpyArgs : FreezeBegin(t, "to_numpy", array)
        \/ LookupPrg(t)
        \/ HitDag(t)
        \/ LookupDag(t)
        \/ \E how \in TransformOutcomes : Transform(t, how)
        \/ \E how \in GenerateOutcomes : Generate(t, how)
        \/ \E raises \in BOOLEAN, extra \in {{}, FaultyOutputs} :
              Execute(t, raises, extra)
        \/ Wait(t)
        \/ Return(t)
        \/ \E func \in MapOps, array \in MapArgs : Call(t, func, array)
        \/ \E args \in EinsumArgs : Einsum(t, args)
        \/ \E array \in JaxFreezeArgs, how \in JaxOutcomes :
              FreezeJAX(t, array, how)

Spec == Init /\ [][Next]_vars

\* ------------------------------------------- unserialized callers
\* The arguments of the freeze calls that two threads make on one context:
\* the same expression over different data, and a container without an
\* expression.
ConcurrentArgs ==
    {Container1(a) : a \in PlainPtArrays}
        \cup {Container1(a) : a \in {b \in TaggableCLArrays : b.tags = {}}}

\* One PyOpenCL context whose callers serialize their calls or do not.
ConcInit ==
    /\ backend = "pyopencl"
    /\ serialized \in BOOLEAN
    /\ freeze_prg_cache = <<>>
    /\ dag_transform_cache = <<>>
    /\ frame = [t \in Threads |-> Idle]
    /\ invoked = <<>>
    /\ ncalls = 0

\* The steps of the freeze calls of the threads, interleaved when the
\* callers do not serialize.
ConcNext ==
    \E t \in Threads :
        \/ \E array \in ConcurrentArgs : FreezeBegin(t, "freeze", array)
        \/ LookupPrg(t)
        \/ HitDag(t)
        \/ LookupDag(t)
        \/ \E how \in TransformOutcomes : Transform(t, how)
        \/ \E how \in GenerateOutcomes : Generate(t, how)
        \/ \E raises \in BOOLEAN, extra \in {{}, FaultyOutputs} :
              Execute(t, raises, extra)
        \/ Wait(t)
        \/ Return(t)

ConcSpec == ConcInit /\ [][ConcNext]_vars

\* ------------------------------------------------------- round trips
\* The concrete leaves that are thawed and frozen again.
RoundTripLeaves == TaggableCLArrays \cup CLArrays

\* thaw(x) of a container of one leaf, as the caller receives it.
Thawed(x) == RecMapContainer("thaw", Container1(x)).ret

\* The caller thaws concrete leaves, and freezes what thaw returned and
\* data wrappers of its own.
RoundTripArgs ==
    {Thawed(x) : x \in RoundTripLeaves}
        \cup {Container1(y) : y \in DataWrappers}

RoundTripNext ==
    \E t \in Threads :
        \/ \E x \in RoundTripLeaves : Call(t, "thaw", Container1(x))
        \/ \E array \in RoundTripArgs : FreezeBegin(t, "freeze", array)
        \/ LookupPrg(t)
        \/ HitDag(t)
        \/ LookupDag(t)
        \/ \E how \in TransformOutcomes : Transform(t, how)
        \/ \E how \in GenerateOutcomes : Generate(t, how)
        \/ \E raises \in BOOLEAN, extra \in {{}, FaultyOutputs} :
              Execute(t, raises, extra)
        \/ Wait(t)
        \/ Return(t)

RoundTripSpec == ConcInit /\ [][RoundTripNext]_vars

\* ------------------------------- PytatoPyOpenCLArrayContext.from_numpy
\* The arguments of the modelled calls of from_numpy.
FromNumpyArgs ==
    ScalarArgs
        \cup {Container1(a) :
                a \in NumpyArrays \cup CLArrays \cup TaggableCLArrays
                        \cup DataWrappers \cup Scalars \cup Others}
        \cup {Container2(a, b) :
                a \in NumpyArrays, b \in CLArrays \cup NumpyScalars}

\* The arguments of the calls of thaw, tag, tag_axis and zeros_like that
\* put every kind of leaf, alone and behind a legacy leaf, before _wrapper.
DispatchArgs ==
    ScalarArgs
        \cup {Container1(a) :
                a \in CLLeaves \cup NumpyScalars \cup NumpyArrays}
        \cup {Container2(a, b) :
                a \in CLArrays, b \in Scalars \cup NumpyScalars \cup Others}
        \cup {Container2(a, b) : a \in Others, b \in CLArrays}

\* ------------------------------- PytatoPyOpenCLArrayContext.call_loopy
\* The keyword arguments of the modelled calls of call_loopy, by keyword.
mkKwargs(leaves) == mkArg("kwargs", 0, leaves)

CallLoopyArgs ==
    {mkKwargs(Container1(a).leaves) :
        a \in TaggableCLArrays \cup CLArrays \cup Scalars \cup Others}
        \cup {mkKwargs(Container2(a, b).leaves) :
                a \in PlainPtArrays, b \in TaggableCLArrays}

CallLoopyExpected == {"pt.Array", "Number", "TaggableCLArray"}

\* The loop over sorted(kwargs.items()): the first argument that is neither
\* an expression, a number nor a TaggableCLArray ends it.
RECURSIVE CallLoopyFrom(_, _, _)
CallLoopyFrom(i, kwargs, acc) ==
    IF i > Len(KeyOrder) \/ acc.exc # NoExc THEN acc
    ELSE IF KeyOrder[i] \notin DOMAIN kwargs
      THEN CallLoopyFrom(i + 1, kwargs, acc)
    ELSE LET kw == KeyOrder[i]
             arg == kwargs[kw]
         IN  CallLoopyFrom(i + 1, kwargs,
                IF IsInstance(arg, {"pt.Array"}) \/ IsScalar(arg)
                  THEN [acc EXCEPT !.out = Put(@, kw, arg)]
                ELSE IF IsInstance(arg, {"TaggableCLArray"})
                  THEN [acc EXCEPT
                          !.out = Put(@, kw, Wrapper("thaw", arg).out)]
                ELSE [acc EXCEPT
                        !.exc = [exc |-> "ValueError", where |-> "call_loopy",
                                 got |-> arg.kind,
                                 expected |-> CallLoopyExpected]])

\* call_loopy(program, **kwargs): pytato's call_loopy receives the
\* processed arguments.
CallLoopyResult(kwargs) ==
    LET m == CallLoopyFrom(1, kwargs.leaves, NoMap)
    IN  [ret |-> IF m.exc = NoExc THEN mkArg("loopy_call", 0, m.out)
                 ELSE NoArg,
         warned |-> m.warned, exc |-> m.exc]

CallLoopy(t, kwargs) ==
    /\ backend = "pyopencl"
    /\ frame[t].pc = "idle"
    /\ CallAllowed(t)
    /\ ncalls < MaxCalls
    /\ ncalls' = ncalls + 1
    /\ LET r == CallLoopyResult(kwargs)
       IN  frame' = [frame EXCEPT ![t] =
              [Idle EXCEPT !.pc = "done", !.op = "call_loopy",
                           !.array = kwargs,
                           !.ret = r.ret, !.exc = r.exc, !.warned = r.warned]]
    /\ UNCHANGED <<backend, serialized, freeze_prg_cache, dag_transform_cache,
                   invoked>>

\* ------------------------------------ PytatoPyOpenCLArrayContext.clone
\* A faulty variant: the context hands its caches to the clone and starts
\* over with empty ones.
CloneMovingCaches(prg_cache, dag_cache) ==
    [self_prg_cache |-> <<>>, self_dag_cache |-> <<>>,
     new_prg_cache |-> prg_cache, new_dag_cache |-> dag_cache]

\* type(self)(self.queue, self.allocator): __init__ gives the new context
\* empty caches of its own, and the caches of self stay as they are.
CloneContext(prg_cache, dag_cache) ==
    [self_prg_cache |-> prg_cache, self_dag_cache |-> dag_cache,
     new_prg_cache |-> <<>>, new_dag_cache |-> <<>>]

\* The returned context, by its caches.
mkContext(prg_cache, dag_cache) ==
    mkArg("context", 0,
          [k \in {"freeze_prg_cache", "dag_transform_cache"} |->
              IF k = "freeze_prg_cache" THEN prg_cache ELSE dag_cache])

Clone(t) ==
    /\ backend = "pyopencl"
    /\ frame[t].pc = "idle"
    /\ CallAllowed(t)
    /\ ncalls < MaxCalls
    /\ ncalls' = ncalls + 1
    /\ LET c == CloneContext(freeze_prg_cache, dag_transform_cache)
       IN  /\ frame' = [frame EXCEPT ![t] =
                [Idle EXCEPT !.pc = "done", !.op = "clone",
                             !.ret = mkContext(c.new_prg_cache,
                                               c.new_dag_cache)]]
           /\ freeze_prg_cache' = c.self_prg_cache
           /\ dag_transform_cache' = c.self_dag_cache
    /\ UNCHANGED <<backend, serialized, invoked>>

\* ------------------------------------- every operation of one context
\* The arguments of the freeze and to_numpy calls made between the other
\* operations.
OpsFreezeArgs == ScalarArgs \cup ConcurrentArgs

OpsEinsumArgs ==
    {mkArgs(FALSE, Container1(a).leaves) :
        a \in PlainPtArrays \cup CLArrays \cup Others}

\* One PyOpenCL context whose caller serializes its calls.
OpsInit ==
    /\ backend = "pyopencl"
    /\ serialized = TRUE
    /\ freeze_prg_cache = <<>>
    /\ dag_transform_cache = <<>>
    /\ frame = [t \in Threads |-> Idle]
    /\ invoked = <<>>
    /\ ncalls = 0

OpsNext ==
    \E t \in Threads :
        \/ \E op \in {"freeze", "to_numpy"}, array \in OpsFreezeArgs :
              FreezeBegin(t, op, array)
        \/ LookupPrg(t)
        \/ HitDag(t)
        \/ LookupDag(t)
        \/ \E how \in TransformOutcomes : Transform(t, how)
        \/ \E how \in GenerateOutcomes : Generate(t, how)
        \/ \E raises \in BOOLEAN, extra \in {{}, FaultyOutputs} :
              Execute(t, raises, extra)
        \/ Wait(t)
        \/ Return(t)
        \/ \E func \in MapOps, array \in DispatchArgs : Call(t, func, array)
        \/ \E array \in FromNumpyArgs : Call(t, "from_numpy", array)
        \/ \E args \in OpsEinsumArgs : Einsum(t, args)
        \/ \E kwargs \in CallLoopyArgs : CallLoopy(t, kwargs)
        \/ Clone(t)

OpsSpec == OpsInit /\ [][OpsNext]_vars

\* ------------------------------------------------------------- properties
InTrace(f, name) == \E i \in 1..Len(f.trace) : f.trace[i] = name

\* The thread is in a call of the PyOpenCL freeze (to_numpy starts with one).
InFreeze(t) ==
    /\ backend = "pyopencl"
    /\ frame[t].pc # "idle"
    /\ frame[t].op \in {"freeze", "to_numpy"}

\* The call was given a container and its classification raised nothing.
Classified(t) ==
    /\ InFreeze(t)
    /\ frame[t].array.top = "container"
    /\ FreezeClassify(frame[t].array.leaves).exc = NoExc

\* The call has returned a value.
Returned(t) == frame[t].pc = "done" /\ frame[t].exc = NoExc

\* The value the program computes for the symbolic leaf.
Computed(leaf) == Apply(leaf.op, leaf.data)

\* C1 as stated: over the serialized freeze calls on one PyOpenCL context,
\* transform_dag and pt.generate_loopy are each invoked at most once per
\* canonical expression.
C1_InvokedAtMostOnce ==
    backend = "pyopencl" =>
        \A k \in DOMAIN invoked :
            k.fn \in {"transform_dag", "generate_loopy"} => invoked[k] <= 1

\* C1 as amended: transform_dag and program generation each return at most
\* once per canonical expression (a call of one that raises stores nothing
\* and a later freeze calls it again), and a freeze of a canonical
\* expression of which an earlier freeze returned invokes neither.
C1_ReturnsAtMostOnce ==
    backend = "pyopencl" =>
        /\ \A k \in DOMAIN invoked :
              k.fn \in {"transform_dag.return", "program.return"}
                  => invoked[k] <= 1
        /\ \A t \in Threads :
              (InFreeze(t) /\ frame[t].refrozen) =>
                  /\ ~InTrace(frame[t], "transform_dag")
                  /\ ~InTrace(frame[t], "generate_loopy")

\* A second freeze of a canonical expression has returned, and transform_dag
\* was called once for it.
C1_Witness ==
    \E t \in Threads :
        /\ InFreeze(t) /\ Returned(t) /\ frame[t].refrozen
        /\ DOMAIN frame[t].key_to_pt_arrays # {}
        /\ Count("transform_dag", frame[t].normalized_expr) = 1
        /\ Count("generate_loopy", frame[t].normalized_expr) = 1
        /\ Count("freeze.return", frame[t].normalized_expr) = 2

\* C2: a freeze that hits the program cache runs the cached program on the
\* bound arguments of its own container: it calls neither transform_dag nor
\* pt.generate_loopy, the outputs are those computed from its own symbolic
\* leaves, and the leaves that were concrete are its own.
C2_HitRunsOnOwnArguments ==
    \A t \in Threads :
        (InFreeze(t) /\ InTrace(frame[t], "prg_hit")) =>
            LET f == frame[t]
                own == FreezeClassify(f.array.leaves)
            IN  /\ ~InTrace(f, "transform_dag")
                /\ ~InTrace(f, "generate_loopy")
                /\ f.pc = "wait" =>
                      \A k \in DOMAIN own.pts :
                          /\ k \in DOMAIN f.out_dict
                          /\ f.out_dict[k].data = Computed(f.array.leaves[k])
                /\ (Returned(t) /\ f.op = "freeze") =>
                      \A k \in DOMAIN f.array.leaves :
                          IF k \in DOMAIN own.pts
                            THEN f.ret.leaves[k].data
                                    = Computed(f.array.leaves[k])
                            ELSE f.ret.leaves[k] = own.frozen[k]

\* A freeze of {a: expression on 2, b: concrete 2} has returned from a
\* program that an earlier freeze, of other values, compiled.
C2_Witness ==
    \E t \in Threads :
        /\ InFreeze(t) /\ Returned(t) /\ frame[t].op = "freeze"
        /\ InTrace(frame[t], "prg_hit")
        /\ DOMAIN frame[t].array.leaves = Keys
        /\ frame[t].array.leaves["a"].kind = "pt"
        /\ frame[t].array.leaves["a"].data = 2
        /\ frame[t].array.leaves["b"].kind = "tga"
        /\ frame[t].array.leaves["b"].data = 2
        /\ frame[t].ret.leaves["a"].data = 3
        /\ Count("generate_loopy", frame[t].normalized_expr) = 1

\* C3: on a JAX context a freeze of a canonical expression of which an
\* earlier freeze returned calls neither transform_dag nor pt.generate_jax.
C3_JaxSecondFreezeInvokesNeither ==
    backend = "jax" =>
        \A t \in Threads :
            (frame[t].pc = "done" /\ frame[t].refrozen) =>
                /\ ~InTrace(frame[t], "transform_dag")
                /\ ~InTrace(frame[t], "generate_jax")

\* The caches hold what they held when the call began ...
CachesAsBegun(f) ==
    /\ freeze_prg_cache = f.prg_cache0
    /\ dag_transform_cache = f.dag_cache0

\* ... or, beyond that, only entries under the key of the call.
GrownBy(cache, cache0, key) ==
    /\ DOMAIN cache0 \subseteq DOMAIN cache
    /\ DOMAIN cache \subseteq DOMAIN cache0 \cup {key}
    /\ \A e \in DOMAIN cache0 : cache[e] = cache0[e]

\* C4 as stated: a freeze that raises leaves both caches as they were
\* before the call.
C4_RaisedLeavesCachesUnchanged ==
    \A t \in Threads :
        (InFreeze(t) /\ frame[t].pc = "done" /\ frame[t].exc # NoExc)
            => CachesAsBegun(frame[t])

\* C4 as amended: a freeze returns a fully concrete container or raises and
\* returns nothing.  One that raises in the classification or in
\* transform_dag leaves both caches as they were; one that raises in the code
\* generation or its hook leaves the program cache as it was and keeps the
\* transform cache entry it stored; one that raises later keeps the entries
\* it stored in both.  No entry of another key is added, changed or removed.
C4_RaisedKeepsWhatItStored ==
    \A t \in Threads :
        (InFreeze(t) /\ frame[t].pc = "done") =>
            LET f == frame[t] IN
            IF f.exc = NoExc
              THEN (f.op = "freeze" /\ f.array.top = "container") =>
                      /\ f.ret.top = "container"
                      /\ \A k \in DOMAIN f.ret.leaves :
                            f.ret.leaves[k].kind = "tga"
              ELSE /\ f.ret = NoArg
                   /\ f.exc.where \in {"freeze", "transform_dag"}
                        => CachesAsBegun(f)
                   /\ f.exc.where \in {"generate_loopy",
                                       "transform_loopy_program"}
                        => freeze_prg_cache = f.prg_cache0
                   /\ GrownBy(freeze_prg_cache, f.prg_cache0, f.normalized_expr)
                   /\ GrownBy(dag_transform_cache, f.dag_cache0,
                              f.normalized_expr)

\* A freeze has raised in the execution of the program it compiled: both
\* caches hold its entries.
C4_Witness ==
    \E t \in Threads :
        /\ InFreeze(t) /\ frame[t].pc = "done"
        /\ frame[t].exc = Raised("BackendExecutionFailure", "execute")
        /\ frame[t].normalized_expr \notin DOMAIN frame[t].prg_cache0
        /\ frame[t].normalized_expr \notin DOMAIN frame[t].dag_cache0
        /\ frame[t].normalized_expr \in DOMAIN freeze_prg_cache
        /\ frame[t].normalized_expr \in DOMAIN dag_transform_cache

\* C5: a freeze that returns, returns a container with the leaf paths of its
\* argument and every leaf concrete; the classification records every leaf
\* path in one of the two maps, and the lookup of the reassembly finds
\* every path in the merged map.
C5_ReturnsConcreteContainer ==
    \A t \in Threads :
        (InFreeze(t) /\ frame[t].op = "freeze"
                /\ frame[t].array.top = "container") =>
            LET f == frame[t] IN
            /\ f.exc.where # "_to_frozen"
            /\ f.pc \notin {"done"} =>
                  DOMAIN f.key_to_frozen_subary \cup DOMAIN f.key_to_pt_arrays
                      = DOMAIN f.array.leaves
            /\ Returned(t) =>
                  /\ f.ret.top = "container"
                  /\ DOMAIN f.ret.leaves = DOMAIN f.array.leaves
                  /\ DOMAIN f.array.leaves \subseteq DOMAIN f.key_to_frozen_subary
                  /\ \A k \in DOMAIN f.ret.leaves :
                        /\ f.ret.leaves[k].kind = "tga"
                        /\ f.ret.leaves[k] = f.key_to_frozen_subary[k]

\* A freeze of a container of a computed expression and a data wrapper has
\* returned.
C5_Witness ==
    \E t \in Threads :
        /\ InFreeze(t) /\ Returned(t) /\ frame[t].op = "freeze"
        /\ DOMAIN frame[t].array.leaves = Keys
        /\ frame[t].array.leaves["a"].kind = "pt"
        /\ frame[t].array.leaves["b"].kind = "dw"
        /\ DOMAIN frame[t].out_dict = {"a"}

\* C6: the classification puts every leaf path into exactly one of the two
\* maps; a program that returns the outputs of its expression never
\* collides with a concrete leaf and never fails the disjointness check; an
\* output that collides with a concrete leaf ends the call with an
\* AssertionError before anything is merged.
C6_MergeIsDisjoint ==
    \A t \in Threads :
        Classified(t) =>
            LET f == frame[t]
                own == FreezeClassify(f.array.leaves)
                collides == DOMAIN f.out_dict \cap DOMAIN own.frozen # {}
            IN  /\ DOMAIN own.frozen \cap DOMAIN own.pts = {}
                /\ DOMAIN own.frozen \cup DOMAIN own.pts = DOMAIN f.array.leaves
                /\ f.pc # "done" =>
                      /\ f.key_to_frozen_subary = own.frozen
                      /\ f.key_to_pt_arrays = own.pts
                /\ (InTrace(f, "execute")
                        /\ DOMAIN f.out_dict \subseteq DOMAIN f.pt_prg.dag) =>
                      /\ ~collides
                      /\ f.exc.where # "disjoint"
                /\ (f.pc = "done" /\ InTrace(f, "wait") /\ collides) =>
                      /\ f.exc = Raised("AssertionError", "disjoint")
                      /\ f.ret = NoArg
                      /\ ~InTrace(f, "merge")

\* A program has returned an output under the path of a concrete leaf, and
\* the call has ended with the AssertionError.
C6_Witness ==
    \E t \in Threads :
        /\ Classified(t) /\ frame[t].pc = "done"
        /\ frame[t].exc = Raised("AssertionError", "disjoint")
        /\ "b" \in DOMAIN frame[t].out_dict
        /\ frame[t].array.leaves["b"].kind \in {"tga", "cla", "dw"}

\* C7: a program with bound arguments of its own is never run: every call
\* that reaches the program call has made the check, whether it found the
\* program in the cache or compiled it, and a program that fails the check
\* ends the call with an AssertionError.
C7_PreBoundProgramNeverRuns ==
    \A t \in Threads :
        InFreeze(t) =>
            LET f == frame[t] IN
            /\ InTrace(f, "execute") =>
                  /\ InTrace(f, "check")
                  /\ DOMAIN f.pt_prg.bound_arguments = {}
            /\ f.pc = "wait" => InTrace(f, "execute")
            /\ (f.pc = "done" /\ InTrace(f, "check")
                    /\ DOMAIN f.pt_prg.bound_arguments # {}) =>
                  /\ f.exc = Raised("AssertionError", "bound_arguments")
                  /\ f.ret = NoArg

\* A freeze has found a program with a bound argument in the cache, and
\* has ended with the AssertionError.
C7_Witness ==
    \E t \in Threads :
        /\ InFreeze(t) /\ frame[t].pc = "done"
        /\ InTrace(frame[t], "prg_hit")
        /\ DOMAIN frame[t].pt_prg.bound_arguments # {}
        /\ frame[t].exc = Raised("AssertionError", "bound_arguments")

\* The operations that take a container of arrays apart leaf by leaf.
LeafOps == {"freeze", "to_numpy"} \cup MapOps

\* The types an operation names as accepted, and the operation its message
\* names: to_numpy starts with freeze.
Accepted(op) ==
    IF op \in {"freeze", "to_numpy"} THEN CLArrayTypes ELSE AllowedTypes(op)

Raiser(op) == IF op \in {"freeze", "to_numpy"} THEN "freeze" ELSE op

\* C8: freeze, to_numpy, thaw, tag, tag_axis and zeros_like of a container
\* that holds a leaf of an unrecognized type end with a TypeError that names
\* the type of a leaf of the container that is not accepted and the accepted
\* types, and return nothing; freeze and to_numpy raise it before any cache
\* access, transform_dag, code generation or execution, with both caches as
\* they were.
C8_UnrecognizedLeafRaisesTypeError ==
    \A t \in Threads :
        LET f == frame[t] IN
        (/\ backend = "pyopencl"
         /\ f.pc # "idle"
         /\ f.op \in LeafOps
         /\ f.array.top = "container"
         /\ \E k \in DOMAIN f.array.leaves : f.array.leaves[k].kind = "other")
        =>
        /\ f.pc = "done"
        /\ f.ret = NoArg
        /\ \E k \in DOMAIN f.array.leaves :
              /\ ~IsInstance(f.array.leaves[k], Accepted(f.op))
              /\ f.exc = UnsupportedLeaf(Raiser(f.op), f.array.leaves[k],
                                         Accepted(f.op))
        /\ f.exc.got = "other"
        /\ f.op \in {"freeze", "to_numpy"} =>
              /\ f.trace = <<>>
              /\ CachesAsBegun(f)

\* A freeze of a container of an expression and a leaf of an unrecognized
\* type has raised on a context whose caches hold entries.
C8_Witness ==
    \E t \in Threads :
        /\ InFreeze(t) /\ frame[t].op = "freeze" /\ frame[t].pc = "done"
        /\ DOMAIN frame[t].array.leaves = Keys
        /\ frame[t].array.leaves["a"].kind = "pt"
        /\ frame[t].array.leaves["b"].kind = "other"
        /\ frame[t].exc.exc = "TypeError"
        /\ DOMAIN freeze_prg_cache # {}
        /\ DOMAIN dag_transform_cache # {}

\* The leaves the classification policy recognizes: the array types and the
\* plain scalars.
Recognized(leaf) == IsInstance(leaf, CLArrayTypes) \/ IsScalar(leaf)

\* C9 as stated: a freeze of a plain scalar, or of a container of recognized
\* leaves, raises no TypeError and returns every plain scalar unchanged, as
\* the generic per-leaf dispatch does.
C9_FreezePassesScalarsThrough ==
    \A t \in Threads :
        LET f == frame[t] IN
        (/\ InFreeze(t) /\ f.op = "freeze" /\ f.pc = "done"
         /\ \A k \in DOMAIN f.array.leaves : Recognized(f.array.leaves[k]))
        =>
        /\ f.exc.exc # "TypeError"
        /\ f.array.top = "scalar" => f.ret = f.array
        /\ (f.array.top = "container" /\ f.exc = NoExc) =>
              \A k \in DOMAIN f.array.leaves :
                  IsScalar(f.array.leaves[k]) =>
                      /\ k \in DOMAIN f.ret.leaves
                      /\ f.ret.leaves[k] = f.array.leaves[k]
                      /\ Wrapper("tag", f.array.leaves[k]).out = f.ret.leaves[k]

\* The result of the trivial freeze of a data wrapper.
TrivialFreeze(leaf) ==
    to_tagged_cl_array(leaf, get_cl_axes_from_pt_axes(leaf.axes), leaf.tags)

\* C10 as stated: every symbolic leaf, a data wrapper included, is among the
\* expressions that freeze hands to transform_dag.
C10_EverySymbolicLeafIsTransformed ==
    \A t \in Threads :
        (Classified(t) /\ frame[t].pc \notin {"done"}) =>
            \A k \in DOMAIN frame[t].array.leaves :
                IsInstance(frame[t].array.leaves[k], {"pt.Array"}) =>
                    k \in DOMAIN frame[t].key_to_pt_arrays

\* C10 as amended: every symbolic leaf that is not a data wrapper is among
\* the expressions that freeze hands to transform_dag, and the leaf returned
\* for it carries the axes and tags of the transformed expression; a data
\* wrapper is made concrete from its own data, axes and tags, and neither
\* transform_dag nor the program sees it.
C10_ExpressionsAreTransformed ==
    \A t \in Threads :
        (Classified(t) /\ frame[t].op = "freeze") =>
            LET f == frame[t] IN
            \A k \in DOMAIN f.array.leaves :
                LET leaf == f.array.leaves[k] IN
                /\ (leaf.kind = "pt" /\ f.pc # "done") =>
                      /\ k \in DOMAIN f.key_to_pt_arrays
                      /\ f.key_to_pt_arrays[k] = leaf
                      /\ k \in DOMAIN f.normalized_expr
                      /\ k \notin DOMAIN f.key_to_frozen_subary
                /\ (leaf.kind = "pt" /\ Returned(t)) =>
                      /\ InTrace(f, "execute")
                      /\ k \in DOMAIN f.transformed_dag
                      /\ k \in DOMAIN f.out_dict
                      /\ f.ret.leaves[k].tags = f.transformed_dag[k].tags
                      /\ f.ret.leaves[k].axes =
                            get_cl_axes_from_pt_axes(f.transformed_dag[k].axes)
                      /\ "T" \in f.ret.leaves[k].tags
                /\ (leaf.kind = "dw" /\ f.pc # "done") =>
                      /\ k \notin DOMAIN f.key_to_pt_arrays
                      /\ k \notin DOMAIN f.normalized_expr
                      /\ f.key_to_frozen_subary[k] = TrivialFreeze(leaf)
                /\ (leaf.kind = "dw" /\ Returned(t)) =>
                      /\ k \notin DOMAIN f.transformed_dag
                      /\ k \notin DOMAIN f.out_dict
                      /\ f.ret.leaves[k] = TrivialFreeze(leaf)
                      /\ "T" \notin f.ret.leaves[k].tags

\* A freeze of a container of an expression and a data wrapper has returned:
\* the expression went through transform_dag, the data wrapper did not.
C10_Witness ==
    \E t \in Threads :
        /\ Classified(t) /\ Returned(t) /\ frame[t].op = "freeze"
        /\ DOMAIN frame[t].array.leaves = Keys
        /\ frame[t].array.leaves["a"].kind = "pt"
        /\ frame[t].array.leaves["b"].kind = "dw"
        /\ InTrace(frame[t], "transform_dag")
        /\ "T" \in frame[t].ret.leaves["a"].tags
        /\ "T" \notin frame[t].ret.leaves["b"].tags

\* C11: every freshly computed leaf that freeze returns holds the data the
\* program computed under its key and the axes and tags of the output of
\* that key in the transformed expression; the transformed expression of
\* the call is the one stored in the transform cache for its canonical
\* expression, also when the program came from the cache.
C11_ComputedLeavesCarryTransformedMeta ==
    \A t \in Threads :
        (InFreeze(t) /\ Returned(t) /\ frame[t].op = "freeze"
                /\ frame[t].array.top = "container") =>
            LET f == frame[t] IN
            /\ f.normalized_expr \in DOMAIN dag_transform_cache
            /\ f.transformed_dag = dag_transform_cache[f.normalized_expr].dag
            /\ \A k \in DOMAIN f.out_dict :
                  LET node == dag_transform_cache[f.normalized_expr].dag[k] IN
                  /\ f.ret.leaves[k].data = f.out_dict[k].data
                  /\ f.ret.leaves[k].axes = get_cl_axes_from_pt_axes(node.axes)
                  /\ f.ret.leaves[k].tags = node.tags

\* A freeze that took its program from the cache has returned a computed
\* leaf with the tag and the axis tag that transform_dag attached in an
\* earlier call.
C11_Witness ==
    \E t \in Threads :
        /\ InFreeze(t) /\ Returned(t) /\ frame[t].op = "freeze"
        /\ InTrace(frame[t], "prg_hit")
        /\ ~InTrace(frame[t], "transform_dag")
        /\ "a" \in DOMAIN frame[t].out_dict
        /\ frame[t].array.leaves["a"].tags = {"t", "uv"}
        /\ frame[t].ret.leaves["a"].tags = {"t", "uv", "T"}
        /\ frame[t].ret.leaves["a"].axes = mkAxes("cl", {"x", "A"})

\* A leaf in the legacy concrete representation: a pyopencl array that is
\* not a TaggableCLArray.
IsLegacy(leaf) ==
    /\ IsInstance(leaf, CLFrozenArrayTypes)
    /\ ~IsInstance(leaf, {"TaggableCLArray"})

\* The argument with every legacy leaf in the canonical representation.
Canonical(array) ==
    [array EXCEPT !.leaves =
        [k \in DOMAIN @ |->
            IF IsLegacy(@[k]) THEN to_tagged_cl_array_default(@[k]) ELSE @[k]]]

\* How often the call reported the leaf at k as deprecated.
Times(warned, k) == Cardinality({i \in 1..Len(warned) : warned[i] = k})

\* C12: freeze, to_numpy, thaw, tag, tag_axis, zeros_like and einsum never
\* reject a legacy leaf; a call that raises no TypeError has reported every
\* legacy leaf exactly once and no other leaf, and a call that raises one
\* has reported no leaf twice; the call classifies, returns and raises what
\* it does for the argument with the legacy leaves in the canonical
\* representation.
C12_LegacyLeafIsCoercedOnce ==
    \A t \in Threads :
        LET f == frame[t]
            leaves == f.array.leaves
        IN
        (/\ backend = "pyopencl"
         /\ f.pc = "done"
         /\ f.op \in LeafOps \cup {"einsum"}
         /\ f.array.top \in {"container", "args"})
        =>
        /\ \A k \in DOMAIN leaves :
              /\ ~IsLegacy(leaves[k]) => Times(f.warned, k) = 0
              /\ IsLegacy(leaves[k]) => Times(f.warned, k) <= 1
              /\ (IsLegacy(leaves[k]) /\ f.exc.exc # "TypeError")
                    => Times(f.warned, k) = 1
        /\ f.exc.exc = "TypeError" => f.exc.got # "cla"
        /\ f.op \in MapOps =>
              /\ f.ret = RecMapContainer(f.op, Canonical(f.array)).ret
              /\ f.exc = RecMapContainer(f.op, Canonical(f.array)).exc
        /\ f.op = "einsum" =>
              /\ f.ret = EinsumResult(Canonical(f.array)).ret
              /\ f.exc = EinsumResult(Canonical(f.array)).exc
        /\ f.op \in {"freeze", "to_numpy"} =>
              LET own == FreezeClassify(leaves)
                  can == FreezeClassify(Canonical(f.array).leaves)
              IN  /\ own.frozen = can.frozen
                  /\ own.pts = can.pts
                  /\ own.exc = can.exc
                  /\ Returned(t) =>
                        \A k \in DOMAIN leaves :
                            IsLegacy(leaves[k]) =>
                                f.ret.leaves[k] =
                                    IF f.op = "freeze"
                                      THEN Canonical(f.array).leaves[k]
                                      ELSE ApplyFunc("to_numpy",
                                               Canonical(f.array).leaves[k])

\* to_numpy of a container of an expression and a legacy leaf has returned
\* and has reported the legacy leaf once.
C12_Witness ==
    \E t \in Threads :
        /\ InFreeze(t) /\ Returned(t) /\ frame[t].op = "to_numpy"
        /\ DOMAIN frame[t].array.leaves = Keys
        /\ frame[t].array.leaves["a"].kind = "pt"
        /\ frame[t].array.leaves["b"].kind = "cla"
        /\ frame[t].warned = <<"b">>
        /\ frame[t].ret.leaves["b"].kind = "np"

\* The two leaves hold the same data, axis tags and tags.
SameValue(u, v) ==
    /\ u.data = v.data
    /\ u.axes.tags = v.axes.tags
    /\ u.tags = v.tags

\* C13: a freeze that returns for what thaw returned for the concrete leaf
\* x, returns a TaggableCLArray with the data, axis tags and tags of x; thaw
\* of what a freeze returned for the data wrapper y raises and reports
\* nothing and returns y.
C13_RoundTripKeepsDataAndMeta ==
    \A t \in Threads :
        LET f == frame[t] IN
        (InFreeze(t) /\ Returned(t) /\ f.op = "freeze"
                /\ f.array.top = "container") =>
            /\ \A x \in RoundTripLeaves :
                  f.array = Thawed(x) =>
                      /\ f.ret.leaves["a"].kind = "tga"
                      /\ SameValue(f.ret.leaves["a"], x)
            /\ \A k \in DOMAIN f.array.leaves :
                  f.array.leaves[k].kind = "dw" =>
                      LET back == RecMapContainer("thaw", f.ret) IN
                      /\ back.exc = NoExc
                      /\ back.warned = <<>>
                      /\ back.ret.leaves[k] = f.array.leaves[k]

\* A freeze has returned for what thaw returned for a TaggableCLArray that
\* has an axis tag and a tag.
C13_Witness ==
    \E t \in Threads, x \in TaggableCLArrays :
        /\ InFreeze(t) /\ Returned(t) /\ frame[t].op = "freeze"
        /\ x.tags = {"t"} /\ x.axes.tags = {"x"}
        /\ frame[t].array = Thawed(x)
        /\ frame[t].ret.leaves["a"] = x

\* A leaf that is symbolic already: an expression node, a data wrapper
\* included.
IsSymbolic(leaf) == IsInstance(leaf, {"pt.Array"})

\* C14: a thaw that returns has turned every TaggableCLArray into a data
\* wrapper of its data with its axis tags and tags, reporting nothing, every
\* legacy leaf into the data wrapper of its coerced form, reporting it once,
\* and has returned every plain scalar as it was; a thaw of a container that
\* holds a symbolic leaf raises the TypeError that names thaw, the type of a
\* leaf that is not accepted and TaggableCLArray as the accepted type, and
\* returns nothing.
C14_ThawAcceptsOnlyConcreteLeaves ==
    \A t \in Threads :
        LET f == frame[t]
            leaves == f.array.leaves
        IN
        (backend = "pyopencl" /\ f.pc = "done" /\ f.op = "thaw") =>
            /\ f.array.top = "scalar" => (f.exc = NoExc /\ f.ret = f.array)
            /\ (f.array.top = "container" /\ f.exc = NoExc) =>
                  /\ DOMAIN f.ret.leaves = DOMAIN leaves
                  /\ \A k \in DOMAIN leaves :
                        /\ ~IsSymbolic(leaves[k])
                        /\ leaves[k].kind = "tga" =>
                              /\ f.ret.leaves[k] =
                                    mkLeaf("dw", leaves[k].data,
                                           mkAxes("pt", leaves[k].axes.tags),
                                           leaves[k].tags, "")
                              /\ Times(f.warned, k) = 0
                        /\ leaves[k].kind = "cla" =>
                              /\ f.ret.leaves[k] =
                                    mkLeaf("dw", leaves[k].data,
                                           mkAxes("pt", {}), {}, "")
                              /\ Times(f.warned, k) = 1
                        /\ leaves[k].kind = "scalar" =>
                              /\ f.ret.leaves[k] = leaves[k]
                              /\ Times(f.warned, k) = 0
            /\ (f.array.top = "container"
                    /\ \E k \in DOMAIN leaves : IsSymbolic(leaves[k])) =>
                  /\ f.ret = NoArg
                  /\ \E k \in DOMAIN leaves :
                        /\ ~IsInstance(leaves[k], CLFrozenArrayTypes)
                        /\ ~IsScalar(leaves[k])
                        /\ f.exc = UnsupportedLeaf("thaw", leaves[k],
                                                   {"TaggableCLArray"})

\* A thaw of a container of a computed expression has raised the TypeError.
C14_Witness ==
    \E t \in Threads :
        /\ backend = "pyopencl"
        /\ frame[t].pc = "done" /\ frame[t].op = "thaw"
        /\ frame[t].array.top = "container"
        /\ frame[t].array.leaves["a"].kind = "pt"
        /\ frame[t].exc.exc = "TypeError"
        /\ frame[t].exc.got = "pt"
        /\ frame[t].ret = NoArg

\* Every entry of the cache is an entry of the cache after the step.
Kept(cache, after) ==
    \A e \in DOMAIN cache : e \in DOMAIN after /\ after[e] = cache[e]

\* C15: no step of a sequence of calls on one context removes an entry from
\* the transform cache or from the program cache or replaces the value
\* stored under a key.
C15_CachesAreWriteOnce ==
    [][/\ Kept(freeze_prg_cache, freeze_prg_cache')
       /\ Kept(dag_transform_cache, dag_transform_cache')]_vars

\* Both caches hold the entries of two canonical expressions: the second
\* store found the first entry in place.
C15_Witness ==
    /\ backend = "pyopencl"
    /\ Cardinality(DOMAIN freeze_prg_cache) = 2
    /\ Cardinality(DOMAIN dag_transform_cache) = 2

\* The canonical expressions that a collaborator was invoked for.
InvokedExprs == {i.expr : i \in DOMAIN invoked}

\* C16 as stated: while the caller serializes its calls, transform_dag and
\* the code generation each run at most once per canonical expression.
C16_SerializedCallsRunOnce ==
    serialized =>
        \A e \in InvokedExprs :
            /\ Count("transform_dag", e) <= 1
            /\ Count("generate_loopy", e) <= 1

\* C16 as amended: while the caller serializes its calls, transform_dag and
\* the code generation each return at most once per canonical expression
\* (one that raised is run again by a later call), and no
\* call is about to transform or to compile an expression whose entry is
\* stored already; a second return for one expression, and a call that is
\* about to repeat a stored step, exist only when the calls are not
\* serialized.
C16_OnlyUnserializedCallsRepeat ==
    serialized =>
        /\ \A e \in InvokedExprs :
              /\ Count("transform_dag.return", e) <= 1
              /\ Count("program.return", e) <= 1
        /\ \A t \in Threads :
              /\ frame[t].pc = "transform" =>
                    CacheKey(frame[t]) \notin DOMAIN dag_transform_cache
              /\ frame[t].pc \in {"lookup_dag", "transform", "generate"} =>
                    CacheKey(frame[t]) \notin DOMAIN freeze_prg_cache

\* Two unserialized freeze calls of one canonical expression have both
\* missed both caches: transform_dag and the code generation have each
\* returned twice for it.
C16_Witness ==
    /\ ~serialized
    /\ \A t \in Threads :
          /\ InFreeze(t)
          /\ InTrace(frame[t], "dag_miss")
          /\ InTrace(frame[t], "store_prg")
    /\ frame[1].normalized_expr = frame[2].normalized_expr
    /\ Count("transform_dag.return", frame[1].normalized_expr) = 2
    /\ Count("program.return", frame[1].normalized_expr) = 2

\* The steps of a freeze that misses both caches, in the order of the code.
FullOrder ==
    <<"prg_miss", "dag_miss", "transform_dag", "store_dag", "generate_loopy",
      "transform_loopy_program", "store_prg", "check", "execute", "wait",
      "merge">>

\* C17: the steps that a freeze that missed both caches has taken are an
\* initial part of that order; what it stored in the transform cache is the
\* expression transform_dag returned with the name derived from its leaves,
\* the program it stored is generated from that expression under that name,
\* the program it runs is the one stored for its canonical expression, the
\* event is pending until the wait, and a freeze that returns a container
\* has waited for the event to complete.
C17_StepsInOrder ==
    \A t \in Threads :
        InFreeze(t) =>
            LET f == frame[t]
                key == f.normalized_expr
                missed == InTrace(f, "prg_miss") /\ InTrace(f, "dag_miss")
            IN
            /\ missed => IsPrefixOf(f.trace, FullOrder)
            /\ (missed /\ InTrace(f, "store_dag")) =>
                  /\ key \in DOMAIN dag_transform_cache
                  /\ dag_transform_cache[key] =
                        [dag |-> f.transformed_dag, name |-> f.function_name]
                  /\ f.function_name = FunctionName(f.key_to_pt_arrays)
            /\ InTrace(f, "store_prg") =>
                  f.pt_prg = generate_loopy(f.transformed_dag, f.function_name)
            /\ InTrace(f, "execute") =>
                  /\ key \in DOMAIN freeze_prg_cache
                  /\ freeze_prg_cache[key] = f.pt_prg
            /\ f.pc = "wait" => f.evt = "pending"
            /\ (Returned(t) /\ f.array.top = "container") =>
                  /\ f.evt = "complete"
                  /\ InTrace(f, "wait")
                  /\ InTrace(f, "merge")

\* A freeze that missed both caches has returned after all the steps, for
\* leaves whose tags name the entry point.
C17_Witness ==
    \E t \in Threads :
        /\ InFreeze(t) /\ Returned(t)
        /\ frame[t].trace = FullOrder
        /\ frame[t].function_name = <<"frozen", "u", "v">>
        /\ frame[t].evt = "complete"

\* C18: in every state, those between the steps of interleaved calls
\* included, every key of the program cache is a key of the transform
\* cache, and the transform lookup that follows a program hit finds its
\* key and never raises KeyError.
C18_ProgramKeysAreTransformKeys ==
    /\ DOMAIN freeze_prg_cache \subseteq DOMAIN dag_transform_cache
    /\ \A t \in Threads :
          /\ frame[t].pc = "hit_dag" =>
                CacheKey(frame[t]) \in DOMAIN dag_transform_cache
          /\ frame[t].exc # Raised("KeyError", "hit_dag")

\* A call is between its program hit and its transform lookup while the
\* unserialized call that stored the program is still running.
C18_Witness ==
    /\ ~serialized
    /\ frame[1].pc = "hit_dag"
    /\ frame[2].pc \in {"execute", "wait"}
    /\ InTrace(frame[2], "store_prg")
    /\ frame[1].normalized_expr = frame[2].normalized_expr

\* C19: a freeze whose transform_dag returned and whose code generation or
\* hook raised leaves its transform cache entry stored and stores no
\* program; a freeze that misses the program cache and finds the entry of
\* its canonical expression in the transform cache takes the expression and
\* the name from it, does not invoke transform_dag, and invokes the code
\* generation.
C19_TransformEntrySurvivesFailedCodegen ==
    \A t \in Threads :
        InFreeze(t) =>
            LET f == frame[t]
                key == f.normalized_expr
            IN
            /\ (f.pc = "done" /\ InTrace(f, "store_dag")
                    /\ f.exc.where \in {"generate_loopy",
                                        "transform_loopy_program"}) =>
                  /\ key \in DOMAIN dag_transform_cache
                  /\ dag_transform_cache[key] =
                        [dag |-> f.transformed_dag, name |-> f.function_name]
                  /\ key \notin DOMAIN freeze_prg_cache
            /\ (InTrace(f, "prg_miss") /\ Len(f.trace) >= 2
                    /\ key \in DOMAIN f.dag_cache0) =>
                  /\ f.trace[2] = "dag_hit"
                  /\ ~InTrace(f, "transform_dag")
                  /\ f.transformed_dag = f.dag_cache0[key].dag
                  /\ f.function_name = f.dag_cache0[key].name
                  /\ f.pc # "generate" => InTrace(f, "generate_loopy")
            /\ InTrace(f, "dag_hit") =>
                  /\ key \in DOMAIN f.dag_cache0
                  /\ key \notin DOMAIN f.prg_cache0

\* After a freeze whose code generation raised, a freeze of the same
\* canonical expression has returned: transform_dag was invoked once and
\* the code generation twice.
C19_Witness ==
    \E t \in Threads :
        /\ InFreeze(t) /\ Returned(t)
        /\ InTrace(frame[t], "dag_hit")
        /\ InTrace(frame[t], "store_prg")
        /\ DOMAIN frame[t].normalized_expr # {}
        /\ Count("transform_dag", frame[t].normalized_expr) = 1
        /\ Count("generate_loopy", frame[t].normalized_expr) = 2

\* The call was given a container without a computed expression.
NothingToCompute(t) ==
    /\ Classified(t)
    /\ \A k \in DOMAIN frame[t].array.leaves :
          frame[t].array.leaves[k].kind # "pt"

DispatchOps == MapOps \cup {"from_numpy"}

\* The numpy dtype of a plain number.
NumpyDType(leaf) ==
    IF leaf.dtype = "int" THEN "int64"
    ELSE IF leaf.dtype = "float" THEN "float64"
    ELSE leaf.dtype

\* C21: thaw, tag, tag_axis, zeros_like and from_numpy put each leaf in the
\* first category that fits of accepted type, soft-deprecated type, plain
\* scalar and rejection: an accepted leaf goes to the per-leaf function
\* unreported, even when it is of a soft-deprecated type too; a
\* soft-deprecated leaf is reported once and goes to the per-leaf function
\* in the canonical representation; a plain scalar comes back as it is when
\* the operation supplies no default, and zeros_like returns the number 0 of
\* the scalar's own dtype in its place, never the array the per-leaf
\* function would make; the first leaf in traversal order that fits none of
\* the three raises the TypeError, and no later leaf is looked at.
C21_DispatchTestsInOrder ==
    \A t \in Threads :
        LET f == frame[t]
            op == f.op
            leaves == f.array.leaves
            accepted(k) == IsInstance(leaves[k], AllowedTypes(op))
            deprecated(k) ==
                /\ ~accepted(k)
                /\ op # "from_numpy"
                /\ leaves[k].kind \in {"tga", "cla"}
            scalar(k) ==
                ~accepted(k) /\ ~deprecated(k) /\ leaves[k].kind = "scalar"
            rejected(k) == ~accepted(k) /\ ~deprecated(k) /\ ~scalar(k)
            present == {i \in 1..Len(KeyOrder) : KeyOrder[i] \in DOMAIN leaves}
            raisers == {i \in present : rejected(KeyOrder[i])}
        IN
        (backend = "pyopencl" /\ f.pc = "done" /\ op \in DispatchOps) =>
            /\ f.array.top = "scalar" =>
                  /\ f.exc = NoExc
                  /\ f.warned = <<>>
                  /\ f.ret = IF op = "zeros_like" THEN mkArg("int64", 0, <<>>)
                             ELSE f.array
            /\ (f.array.top = "container" /\ raisers = {}) =>
                  /\ f.exc = NoExc
                  /\ f.ret.top = "container"
                  /\ DOMAIN f.ret.leaves = DOMAIN leaves
                  /\ \A k \in DOMAIN leaves :
                        /\ accepted(k) =>
                              /\ f.ret.leaves[k] = ApplyFunc(op, leaves[k])
                              /\ Times(f.warned, k) = 0
                        /\ deprecated(k) =>
                              /\ f.ret.leaves[k] =
                                    ApplyFunc(op, [leaves[k] EXCEPT
                                                     !.kind = "tga"])
                              /\ Times(f.warned, k) = 1
                        /\ scalar(k) =>
                              /\ f.ret.leaves[k] =
                                    IF op = "zeros_like"
                                      THEN mkScalar(NumpyDType(leaves[k]), 0)
                                      ELSE leaves[k]
                              /\ f.ret.leaves[k] # ApplyFunc(op, leaves[k])
                              /\ Times(f.warned, k) = 0
            /\ (f.array.top = "container" /\ raisers # {}) =>
                  LET first == CHOOSE i \in raisers :
                                  \A j \in raisers : i <= j
                  IN  /\ f.ret = NoArg
                      /\ f.exc = UnsupportedLeaf(op, leaves[KeyOrder[first]],
                                                 AllowedTypes(op))
                      /\ \A i \in present :
                            Times(f.warned, KeyOrder[i]) =
                                IF i < first /\ deprecated(KeyOrder[i])
                                  THEN 1 ELSE 0

\* zeros_like of a container of a legacy leaf and a numpy float32 number has
\* returned the float32 number 0 in the place of the number and has reported
\* the legacy leaf.
C21_Witness ==
    \E t \in Threads :
        LET f == frame[t] IN
        /\ backend = "pyopencl" /\ f.pc = "done" /\ f.op = "zeros_like"
        /\ f.array.top = "container"
        /\ DOMAIN f.array.leaves = Keys
        /\ f.array.leaves["a"].kind = "cla"
        /\ f.array.leaves["b"] = mkScalar("float32", 2)
        /\ f.exc = NoExc
        /\ f.ret.leaves["b"] = mkScalar("float32", 0)
        /\ f.warned = <<"a">>

\* C22: from_numpy, which runs the dispatch in strict mode, reports no leaf
\* as deprecated; a container with a leaf that is neither a numpy array nor
\* a plain scalar, a legacy or canonical pyopencl array included, ends with
\* the TypeError that names from_numpy, the type of the first such leaf and
\* np.ndarray as the accepted type, and returns nothing; every other
\* container comes back with its numpy arrays as data wrappers of their
\* data and its scalars as they are.
C22_StrictDispatchRejectsLegacyLeaf ==
    \A t \in Threads :
        LET f == frame[t]
            leaves == f.array.leaves
            bad == {i \in 1..Len(KeyOrder) :
                      /\ KeyOrder[i] \in DOMAIN leaves
                      /\ leaves[KeyOrder[i]].kind \notin {"np", "scalar"}}
        IN
        (/\ backend = "pyopencl"
         /\ f.pc = "done"
         /\ f.op = "from_numpy"
         /\ f.array.top = "container")
        =>
        /\ f.warned = <<>>
        /\ (\E k \in DOMAIN leaves : IsLegacy(leaves[k])) =>
              f.exc.exc = "TypeError"
        /\ bad # {} =>
              LET first == CHOOSE i \in bad : \A j \in bad : i <= j
              IN  /\ f.ret = NoArg
                  /\ f.exc = [exc |-> "TypeError", where |-> "from_numpy",
                              got |-> leaves[KeyOrder[first]].kind,
                              expected |-> {"np.ndarray"}]
        /\ bad = {} =>
              /\ f.exc = NoExc
              /\ f.ret.top = "container"
              /\ DOMAIN f.ret.leaves = DOMAIN leaves
              /\ \A k \in DOMAIN leaves :
                    f.ret.leaves[k] =
                        IF leaves[k].kind = "np"
                          THEN mkLeaf("dw", leaves[k].data, mkAxes("pt", {}),
                                      {}, "")
                          ELSE leaves[k]

\* from_numpy of a container of a numpy array and a legacy leaf has raised
\* the TypeError about the legacy leaf and has reported nothing.
C22_Witness ==
    \E t \in Threads :
        LET f == frame[t] IN
        /\ backend = "pyopencl" /\ f.pc = "done" /\ f.op = "from_numpy"
        /\ f.array.top = "container"
        /\ DOMAIN f.array.leaves = Keys
        /\ f.array.leaves["a"].kind = "np"
        /\ f.array.leaves["b"].kind = "cla"
        /\ f.exc.exc = "TypeError" /\ f.exc.got = "cla"
        /\ f.warned = <<>>

\* The operations that C23 says leave the caches alone.
CacheFreeOps ==
    {"thaw", "tag", "tag_axis", "zeros_like", "from_numpy", "einsum",
     "call_loopy", "clone"}

CachesChange ==
    \/ freeze_prg_cache' # freeze_prg_cache
    \/ dag_transform_cache' # dag_transform_cache

\* C23: a step that changes the transform cache or the program cache of the
\* context is a step of a running freeze or to_numpy call on a container;
\* no step of thaw, tag, tag_axis, zeros_like, from_numpy, einsum,
\* call_loopy or clone, their return included, changes either cache; and
\* freeze of a top-level plain scalar has returned the scalar at its first
\* step, without a cache lookup and with both caches as they were.
C23_OnlyFreezeModifiesTheCaches ==
    [][/\ CachesChange =>
            \E t \in Threads :
                /\ frame'[t] # frame[t]
                /\ frame[t].pc \notin {"idle", "done"}
                /\ frame[t].op \in {"freeze", "to_numpy"}
                /\ frame[t].array.top = "container"
       /\ \A t \in Threads :
            frame'[t] # frame[t] =>
                /\ (frame[t].op \in CacheFreeOps
                        \/ frame'[t].op \in CacheFreeOps) => ~CachesChange
                /\ (frame'[t].op = "freeze"
                        /\ frame'[t].array.top = "scalar") =>
                      /\ frame[t].pc = "idle"
                      /\ frame'[t].pc = "done"
                      /\ frame'[t].ret = frame'[t].array
                      /\ frame'[t].exc = NoExc
                      /\ frame'[t].trace = <<>>
                      /\ ~CachesChange]_vars

\* clone has returned a context with empty caches while both caches of the
\* cloned context hold an entry.
C23_Witness ==
    \E t \in Threads :
        /\ backend = "pyopencl"
        /\ frame[t].pc = "done" /\ frame[t].op = "clone"
        /\ frame[t].ret = mkContext(<<>>, <<>>)
        /\ DOMAIN freeze_prg_cache # {}
        /\ DOMAIN dag_transform_cache # {}
====
